---- MODULE Spec2Model ----
(***************************************************************************)
(* Verification model of the package-manager detection / command synthesis *)
(* layer (PackageManagerDetector) and of the input validation layer        *)
(* (ValidationUtils) of the Node Project Manager extension.                *)
(*                                                                         *)
(* A JavaScript string is modelled as a sequence of one-character strings. *)
(***************************************************************************)
EXTENDS Integers, Sequences, FiniteSets, TLC

VARIABLES
    workspaceFolder,   \* TRUE iff vscode.workspace.workspaceFolders?.[0] is defined
    files,             \* names of the files existing in the workspace root
    packageManager,    \* setting nodeProjectManager.packageManager: <<>> unset, <<v>> set to v
    op,                \* name of the last operation called ("none" initially)
    argPackage,        \* optional string argument: <<>> = undefined, <<s>> = the string s
    argVersion,        \* optional version argument, same encoding
    argDev,            \* the isDev argument
    detected,          \* value returned by the last run of detect()
    probed,            \* files passed to fs.existsSync by the last run of detect(), in order
    configRead,        \* TRUE iff the last run of detect() read the configuration
    command,           \* command string returned by the last command builder
    input,             \* string handed to the last validator call
    verdict,           \* boolean returned by the last validator call
    found,             \* boolean returned by the last hasPackageJson call
    path,              \* what the last getPackageJsonPath call returned: <<>> for null, <<p>> for the path p
    message,           \* what the last input-box adapter returned: <<>> for null, <<m>> for the message m
    logged,            \* the Logger.logValidation calls of the last validator call, in order
    showTerminal,      \* the nodeProjectManager.showTerminal setting: <<>> when not set, <<b>> when set to b
    confirmActions,    \* the nodeProjectManager.confirmActions setting, likewise
    manifest,          \* the content of package.json in the workspace root
    clientName,        \* Client.name of the Client instance the handlers share
    terminals,         \* the terminals made by vscode.window.createTerminal, in order: "live", "exited" or "disposed"
    scriptTerminal,    \* Terminal.scriptTerminal: 0 for undefined, else the position of the stored terminal in terminals
    handler,           \* the command handler that runs, or ran last ("none" before the first)
    pc,                \* the prompt the handler waits at, or "done"
    local,             \* the local variables of the handler
    sent,              \* the commands handed to the terminal or the background runner since the handler started
    notices,           \* the messages shown to the user since the handler started
    results,           \* the Logger.logCommandResult calls since the handler started
    tasks,             \* the addNewScript calls whose readFile or writeFile callback is still due
    completed          \* the outcome of the addNewScript call that finished in the last step, if one did

vars == <<workspaceFolder, files, packageManager, op, argPackage, argVersion,
          argDev, detected, probed, configRead, command, input, verdict,
          found, path, message, logged,
          showTerminal, confirmActions, manifest, clientName, terminals, scriptTerminal,
          handler, pc,
          local, sent, notices, results, tasks, completed>>

envVars == <<workspaceFolder, files, packageManager>>
detectVars == <<detected, probed, configRead>>
callVars == <<argPackage, argVersion, argDev>>
validatorVars == <<input, verdict, message, logged>>
manifestVars == <<found, path>>
settingVars == <<showTerminal, confirmActions>>
handlerVars == <<handler, pc, local>>
outputVars == <<sent, notices, results>>
scriptVars == <<manifest, tasks, completed>>
terminalVars == <<terminals, scriptTerminal>>
commandVars == <<settingVars, handlerVars, outputVars, scriptVars, clientName, terminalVars>>
recordVars == <<op, callVars, detectVars, manifestVars, command, validatorVars>>

-----------------------------------------------------------------------------
(* Optional values: undefined is <<>>, a defined value v is <<v>>.         *)
Undefined == <<>>
Some(v) == <<v>>
IsDefined(o) == o # <<>>
ValueOf(o) == o[1]

\* JavaScript truthiness of an optional string: undefined and "" are falsy.
Truthy(o) == IsDefined(o) /\ ValueOf(o) # <<>>

-----------------------------------------------------------------------------
(* PackageManagerDetector                                                  *)

PackageManagerName == {"npm", "yarn", "pnpm", "bun"}

\* The text of a manager name (the name as it appears in a command line).

\* Lock files in order of preference, each with the manager it stands for.
lockFiles_npmFirst ==
    << [file |-> "package-lock.json", manager |-> "npm"],
       [file |-> "yarn.lock", manager |-> "yarn"],
       [file |-> "pnpm-lock.yaml", manager |-> "pnpm"],
       [file |-> "bun.lockb", manager |-> "bun"] >>

lockFiles ==
    << [file |-> "pnpm-lock.yaml", manager |-> "pnpm"],
       [file |-> "yarn.lock", manager |-> "yarn"],
       [file |-> "bun.lockb", manager |-> "bun"],
       [file |-> "package-lock.json", manager |-> "npm"] >>

LockFileNames == {lockFiles[i].file : i \in DOMAIN lockFiles}

\* The for-loop of detect from entry i on: stops at the first lock file that
\* exists; probed lists the files handed to fs.existsSync so far.
RECURSIVE lockFileLoop(_, _)
lockFileLoop(i, fs) ==
    IF i > Len(lockFiles)
    THEN [found |-> FALSE, manager |-> "npm",
          probed |-> [k \in 1..Len(lockFiles) |-> lockFiles[k].file]]
    ELSE IF lockFiles[i].file \in fs
         THEN [found |-> TRUE, manager |-> lockFiles[i].manager,
               probed |-> [k \in 1..i |-> lockFiles[k].file]]
         ELSE lockFileLoop(i + 1, fs)

\* config.get<PackageManagerName>('packageManager', 'npm')
configGet(setting, defaultValue) ==
    IF IsDefined(setting) THEN ValueOf(setting) ELSE defaultValue

\* detect() on a workspace (ws: a folder is open, fs: files in its root,
\* setting: the packageManager setting).
detectIn_noWorkspaceGuard(ws, fs, setting) ==
    LET loop == lockFileLoop(1, fs) IN
    IF loop.found
    THEN [manager |-> loop.manager, probed |-> loop.probed, configRead |-> FALSE]
    ELSE [manager |-> configGet(setting, "npm"), probed |-> loop.probed,
          configRead |-> TRUE]

detectIn(ws, fs, setting) ==
    IF ~ws
    THEN [manager |-> "npm", probed |-> <<>>, configRead |-> FALSE]
    ELSE LET loop == lockFileLoop(1, fs) IN
         IF loop.found
         THEN [manager |-> loop.manager, probed |-> loop.probed,
               configRead |-> FALSE]
         ELSE [manager |-> configGet(setting, "npm"), probed |-> loop.probed,
               configRead |-> TRUE]

\* detect() answering from the name the Client was constructed with.
detect_cached == [manager |-> clientName, probed |-> <<>>, configRead |-> FALSE]

\* detect() in the current state.
detect == detectIn(workspaceFolder, files, packageManager)

\* workspaceFolder.uri.fsPath of the first workspace folder.
fsPath ==
    <<"/", "w", "s">>

\* path.join(dir, name) of a directory without a trailing separator and a file name.
join(dir, name) == dir \o <<"/">> \o name

txt_package_json ==
    <<"p", "a", "c", "k", "a", "g", "e", ".", "j", "s", "o", "n">>

\* The files the model follows in the workspace root.
WorkspaceFileNames == LockFileNames \cup {"package.json"}

\* fs.existsSync(path.join(fsPath, 'package.json'))
existsSync_package_json(fs) == "package.json" \in fs

\* hasPackageJson()
hasPackageJsonIn(ws, fs) ==
    IF ~ws THEN FALSE ELSE existsSync_package_json(fs)

hasPackageJson == hasPackageJsonIn(workspaceFolder, files)

\* getPackageJsonPath()
getPackageJsonPathIn_noExistsCheck(ws, fs) ==
    IF ~ws THEN Undefined ELSE Some(join(fsPath, txt_package_json))

getPackageJsonPathIn(ws, fs) ==
    IF ~ws
    THEN Undefined
    ELSE IF existsSync_package_json(fs)
         THEN Some(join(fsPath, txt_package_json))
         ELSE Undefined

getPackageJsonPath == getPackageJsonPathIn(workspaceFolder, files)

\* String literals of the command templates.
txt ==
    [ npm_install |->  \* 'npm install'
          <<"n", "p", "m", " ", "i", "n", "s", "t", "a", "l", "l">>,
      yarn_install |->  \* 'yarn install'
          <<"y", "a", "r", "n", " ", "i", "n", "s", "t", "a", "l", "l">>,
      pnpm_install |->  \* 'pnpm install'
          <<"p", "n", "p", "m", " ", "i", "n", "s", "t", "a", "l", "l">>,
      bun_install |->  \* 'bun install'
          <<"b", "u", "n", " ", "i", "n", "s", "t", "a", "l", "l">>,
      npm_install_ |->  \* 'npm install '
          <<"n", "p", "m", " ", "i", "n", "s", "t", "a", "l", "l", " ">>,
      yarn_add_ |->  \* 'yarn add '
          <<"y", "a", "r", "n", " ", "a", "d", "d", " ">>,
      pnpm_add_ |->  \* 'pnpm add '
          <<"p", "n", "p", "m", " ", "a", "d", "d", " ">>,
      bun_add_ |->  \* 'bun add '
          <<"b", "u", "n", " ", "a", "d", "d", " ">>,
      dev |->  \* ' --dev'
          <<" ", "-", "-", "d", "e", "v">>,
      save_dev |->  \* ' --save-dev'
          <<" ", "-", "-", "s", "a", "v", "e", "-", "d", "e", "v">>,
      npm_uninstall_ |->  \* 'npm uninstall '
          <<"n", "p", "m", " ", "u", "n", "i", "n", "s", "t", "a", "l", "l", " ">>,
      yarn_remove_ |->  \* 'yarn remove '
          <<"y", "a", "r", "n", " ", "r", "e", "m", "o", "v", "e", " ">>,
      pnpm_remove_ |->  \* 'pnpm remove '
          <<"p", "n", "p", "m", " ", "r", "e", "m", "o", "v", "e", " ">>,
      bun_remove_ |->  \* 'bun remove '
          <<"b", "u", "n", " ", "r", "e", "m", "o", "v", "e", " ">>,
      at |->  \* '@'
          <<"@">>,
      at_latest |->  \* '@latest'
          <<"@", "l", "a", "t", "e", "s", "t">>,
      npm_audit |->  \* 'npm audit'
          <<"n", "p", "m", " ", "a", "u", "d", "i", "t">>,
      yarn_audit |->  \* 'yarn audit'
          <<"y", "a", "r", "n", " ", "a", "u", "d", "i", "t">>,
      pnpm_audit |->  \* 'pnpm audit'
          <<"p", "n", "p", "m", " ", "a", "u", "d", "i", "t">>,
      bun_audit |->  \* 'bun audit'
          <<"b", "u", "n", " ", "a", "u", "d", "i", "t">>,
      npm_run_ |->  \* 'npm run '
          <<"n", "p", "m", " ", "r", "u", "n", " ">>,
      yarn_ |->  \* 'yarn '
          <<"y", "a", "r", "n", " ">>,
      pnpm_ |->  \* 'pnpm '
          <<"p", "n", "p", "m", " ">>,
      bun_run_ |->  \* 'bun run '
          <<"b", "u", "n", " ", "r", "u", "n", " ">> ]
txt_pnpm_run_ == <<"p", "n", "p", "m", " ", "r", "u", "n", " ">>  \* 'pnpm run '
txt_bun_audit_brace == <<"b", "u", "n", " ", "a", "u", "d", "i", "t", "}">>  \* 'bun audit}'
txt_yarn_upgrade_ == <<"y", "a", "r", "n", " ", "u", "p", "g", "r", "a", "d", "e", " ">>  \* 'yarn upgrade '

\* getInstallCommand(packageName?, isDev = false)
getInstallCommand_devFlagSwapped(packageName, isDev) ==
    LET manager == detect.manager IN
    IF ~Truthy(packageName)
    THEN CASE manager = "yarn" -> txt.yarn_install
           [] manager = "pnpm" -> txt.pnpm_install
           [] manager = "bun" -> txt.bun_install
           [] OTHER -> txt.npm_install
    ELSE CASE manager = "yarn" ->
                txt.yarn_add_ \o ValueOf(packageName) \o (IF isDev THEN txt.save_dev ELSE <<>>)
           [] manager = "pnpm" ->
                txt.pnpm_add_ \o ValueOf(packageName) \o (IF isDev THEN txt.save_dev ELSE <<>>)
           [] manager = "bun" ->
                txt.bun_add_ \o ValueOf(packageName) \o (IF isDev THEN txt.dev ELSE <<>>)
           [] OTHER ->
                txt.npm_install_ \o ValueOf(packageName) \o (IF isDev THEN txt.save_dev ELSE <<>>)

getInstallCommand(packageName, isDev) ==
    LET manager == detect.manager IN
    IF ~Truthy(packageName)
    THEN CASE manager = "yarn" -> txt.yarn_install
           [] manager = "pnpm" -> txt.pnpm_install
           [] manager = "bun" -> txt.bun_install
           [] OTHER -> txt.npm_install
    ELSE CASE manager = "yarn" ->
                txt.yarn_add_ \o ValueOf(packageName) \o (IF isDev THEN txt.dev ELSE <<>>)
           [] manager = "pnpm" ->
                txt.pnpm_add_ \o ValueOf(packageName) \o (IF isDev THEN txt.save_dev ELSE <<>>)
           [] manager = "bun" ->
                txt.bun_add_ \o ValueOf(packageName) \o (IF isDev THEN txt.dev ELSE <<>>)
           [] OTHER ->
                txt.npm_install_ \o ValueOf(packageName) \o (IF isDev THEN txt.save_dev ELSE <<>>)

\* getRemoveCommand(packageName)
getRemoveCommand_npmRemove(packageName) ==
    LET manager == detect.manager IN
    CASE manager = "yarn" -> txt.yarn_remove_ \o packageName
      [] manager = "pnpm" -> txt.pnpm_remove_ \o packageName
      [] manager = "bun" -> txt.bun_remove_ \o packageName
      [] OTHER -> <<"n", "p", "m", " ", "r", "e", "m", "o", "v", "e", " ">> \o packageName

getRemoveCommand(packageName) ==
    LET manager == detect.manager IN
    CASE manager = "yarn" -> txt.yarn_remove_ \o packageName
      [] manager = "pnpm" -> txt.pnpm_remove_ \o packageName
      [] manager = "bun" -> txt.bun_remove_ \o packageName
      [] OTHER -> txt.npm_uninstall_ \o packageName

\* getUpdateCommand(packageName, version?)
getUpdateCommand_nativeUpgrade(packageName, version) ==
    LET manager == detect.manager IN
    IF Truthy(version)
    THEN CASE manager = "yarn" -> txt.yarn_add_ \o packageName \o txt.at \o ValueOf(version)
           [] manager = "pnpm" -> txt.pnpm_add_ \o packageName \o txt.at \o ValueOf(version)
           [] manager = "bun" -> txt.bun_add_ \o packageName \o txt.at \o ValueOf(version)
           [] OTHER -> txt.npm_install_ \o packageName \o txt.at \o ValueOf(version)
    ELSE CASE manager = "yarn" -> txt_yarn_upgrade_ \o packageName
           [] manager = "pnpm" -> txt.pnpm_add_ \o packageName \o txt.at_latest
           [] manager = "bun" -> txt.bun_add_ \o packageName \o txt.at_latest
           [] OTHER -> txt.npm_install_ \o packageName \o txt.at_latest

getUpdateCommand(packageName, version) ==
    LET manager == detect.manager IN
    IF Truthy(version)
    THEN CASE manager = "yarn" -> txt.yarn_add_ \o packageName \o txt.at \o ValueOf(version)
           [] manager = "pnpm" -> txt.pnpm_add_ \o packageName \o txt.at \o ValueOf(version)
           [] manager = "bun" -> txt.bun_add_ \o packageName \o txt.at \o ValueOf(version)
           [] OTHER -> txt.npm_install_ \o packageName \o txt.at \o ValueOf(version)
    ELSE CASE manager = "yarn" -> txt.yarn_add_ \o packageName \o txt.at_latest
           [] manager = "pnpm" -> txt.pnpm_add_ \o packageName \o txt.at_latest
           [] manager = "bun" -> txt.bun_add_ \o packageName \o txt.at_latest
           [] OTHER -> txt.npm_install_ \o packageName \o txt.at_latest

\* getAuditCommand()
getAuditCommand_strayBrace ==
    LET manager == detect.manager IN
    CASE manager = "yarn" -> txt.yarn_audit
      [] manager = "pnpm" -> txt.pnpm_audit
      [] manager = "bun" -> txt_bun_audit_brace
      [] OTHER -> txt.npm_audit

getAuditCommand ==
    LET manager == detect.manager IN
    CASE manager = "yarn" -> txt.yarn_audit
      [] manager = "pnpm" -> txt.pnpm_audit
      [] manager = "bun" -> txt.bun_audit
      [] OTHER -> txt.npm_audit

\* getRunCommand(scriptName)
getRunCommand_yarnRun(scriptName) ==
    LET manager == detect.manager IN
    CASE manager = "yarn" -> <<"y", "a", "r", "n", " ", "r", "u", "n", " ">> \o scriptName
      [] manager = "pnpm" -> txt.pnpm_ \o scriptName
      [] manager = "bun" -> txt.bun_run_ \o scriptName
      [] OTHER -> txt.npm_run_ \o scriptName

getRunCommand(scriptName) ==
    LET manager == detect.manager IN
    CASE manager = "yarn" -> txt.yarn_ \o scriptName
      [] manager = "pnpm" -> txt.pnpm_ \o scriptName
      [] manager = "bun" -> txt.bun_run_ \o scriptName
      [] OTHER -> txt.npm_run_ \o scriptName

-----------------------------------------------------------------------------
(* JavaScript string operations used by ValidationUtils                    *)

LowerLetters == <<"a", "b", "c", "d", "e", "f", "g", "h", "i", "j", "k", "l", "m",
                  "n", "o", "p", "q", "r", "s", "t", "u", "v", "w", "x", "y", "z">>
UpperLetters == <<"A", "B", "C", "D", "E", "F", "G", "H", "I", "J", "K", "L", "M",
                  "N", "O", "P", "Q", "R", "S", "T", "U", "V", "W", "X", "Y", "Z">>
Lower == {LowerLetters[i] : i \in DOMAIN LowerLetters}     \* a-z
Upper == {UpperLetters[i] : i \in DOMAIN UpperLetters}     \* A-Z
Digit == {"0", "1", "2", "3", "4", "5", "6", "7", "8", "9"} \* 0-9, \d
Word == Lower \cup Upper \cup Digit \cup {"_"}              \* \w
WhiteSpace == {" ", "\t", "\n"}                             \* \s, and what trim() strips

\* String.prototype.toLowerCase
toLowerCaseChar(c) ==
    IF c \in Upper
    THEN LowerLetters[CHOOSE i \in DOMAIN UpperLetters : UpperLetters[i] = c]
    ELSE c

toLowerCase(s) == [i \in DOMAIN s |-> toLowerCaseChar(s[i])]

\* String.prototype.trim
RECURSIVE trimStart(_)
trimStart(s) ==
    IF s # <<>> /\ Head(s) \in WhiteSpace THEN trimStart(Tail(s)) ELSE s

RECURSIVE trimEnd(_)
trimEnd(s) ==
    IF s # <<>> /\ s[Len(s)] \in WhiteSpace
    THEN trimEnd(SubSeq(s, 1, Len(s) - 1))
    ELSE s

trim_none(s) == s

trim(s) == trimEnd(trimStart(s))

\* String.prototype.startsWith, for a one-character prefix
startsWith(s, c) == s # <<>> /\ s[1] = c

\* String.prototype.split, for a one-character separator: the sequence of
\* the pieces between the separators (an empty string gives one empty piece).
RECURSIVE split(_, _)
split(s, c) ==
    IF \E i \in DOMAIN s : s[i] = c
    THEN LET i == CHOOSE k \in DOMAIN s : s[k] = c /\ \A j \in 1..(k - 1) : s[j] # c
         IN <<SubSeq(s, 1, i - 1)>> \o split(SubSeq(s, i + 1, Len(s)), c)
    ELSE <<s>>

-----------------------------------------------------------------------------
(* Regular expressions, as syntax trees, and RegExp.prototype.test         *)

Cls(set) == [t |-> "cls", set |-> set]          \* [...]
Lit(str) == [t |-> "lit", str |-> str]          \* literal text
Cat(parts) == [t |-> "cat", parts |-> parts]    \* r1 r2 ... rn
Alt(opts) == [t |-> "alt", opts |-> opts]       \* r1|r2|...|rn
Opt(r) == [t |-> "opt", r |-> r]                \* r?
Star(r) == [t |-> "star", r |-> r]              \* r*
Plus(r) == [t |-> "plus", r |-> r]              \* r+

\* Ends(re, s, P): the offsets at which a match of re can end when it starts
\* at one of the offsets in P (an offset is the number of characters consumed).
RECURSIVE Ends(_, _, _)
RECURSIVE StarEnds(_, _, _, _)
Ends(re, s, P) ==
    CASE re.t = "cls" ->
           {p + 1 : p \in {q \in P : q < Len(s) /\ s[q + 1] \in re.set}}
      [] re.t = "lit" ->
           {p + Len(re.str) :
              p \in {q \in P : /\ q + Len(re.str) <= Len(s)
                               /\ SubSeq(s, q + 1, q + Len(re.str)) = re.str}}
      [] re.t = "cat" ->
           IF re.parts = <<>> THEN P
           ELSE Ends(Cat(Tail(re.parts)), s, Ends(Head(re.parts), s, P))
      [] re.t = "alt" ->
           UNION {Ends(re.opts[i], s, P) : i \in DOMAIN re.opts}
      [] re.t = "opt" -> P \cup Ends(re.r, s, P)
      [] re.t = "star" -> StarEnds(re.r, s, P, P)
      [] re.t = "plus" -> LET once == Ends(re.r, s, P) IN StarEnds(re.r, s, once, once)

\* Zero or more matches of r from the offsets in acc (frontier: the offsets
\* not yet extended). A run of characters of one class is taken in one step.
StarEnds(r, s, acc, frontier) ==
    IF r.t = "cls"
    THEN {q \in 0..Len(s) :
            \E p \in acc : p <= q /\ \A i \in (p + 1)..q : s[i] \in r.set}
    ELSE LET more == Ends(r, s, frontier) \ acc
         IN IF more = {} THEN acc ELSE StarEnds(r, s, acc \cup more, more)

\* /^re$/.test(s)
test(re, s) == Len(s) \in Ends(re, s, {0})

-----------------------------------------------------------------------------
(* ValidationUtils                                                         *)

MaxPackageNameLength == 214

\* [a-z0-9-~]
NameFirst_withDot == Lower \cup Digit \cup {"-", "~", "."}

NameFirst == Lower \cup Digit \cup {"-", "~"}

\* [a-z0-9-._~]
NameRest == Lower \cup Digit \cup {"-", ".", "_", "~"}

\* /^(@[a-z0-9-~][a-z0-9-._~]*\/)?[a-z0-9-~][a-z0-9-._~]*$/
packageNameRegex ==
    Cat(<< Opt(Cat(<< Lit(<<"@">>), Cls(NameFirst), Star(Cls(NameRest)), Lit(<<"/">>) >>)),
           Cls(NameFirst), Star(Cls(NameRest)) >>)

\* validatePackageName(name)
validatePackageName(name) ==
    IF name = <<>> \/ trim(name) = <<>>
    THEN FALSE
    ELSE test(packageNameRegex, toLowerCase(name)) /\ Len(name) <= MaxPackageNameLength

\* [\d\w.-]
VersionChar_noDot == Digit \cup Word \cup {"-"}

VersionChar == Digit \cup Word \cup {".", "-"}

\* /^(\^|~|>=|<=|>|<)?[\d\w.-]+(\s*\|\|\s*[\d\w.-]+)*$|^latest$|^next$|^beta$|^alpha$/
versionRegex ==
    Alt(<< Cat(<< Opt(Alt(<< Lit(<<"^">>), Lit(<<"~">>), Lit(<<">", "=">>),
                             Lit(<<"<", "=">>), Lit(<<">">>), Lit(<<"<">>) >>)),
                  Plus(Cls(VersionChar)),
                  Star(Cat(<< Star(Cls(WhiteSpace)), Lit(<<"|", "|">>),
                              Star(Cls(WhiteSpace)), Plus(Cls(VersionChar)) >>)) >>),
           Lit(<<"l", "a", "t", "e", "s", "t">>),
           Lit(<<"n", "e", "x", "t">>),
           Lit(<<"b", "e", "t", "a">>),
           Lit(<<"a", "l", "p", "h", "a">>) >>)

\* validatePackageNameWithVersion(nameWithVersion)
validatePackageNameWithVersion_noNameCheck(nameWithVersion) ==
    IF nameWithVersion = <<>> \/ trim(nameWithVersion) = <<>>
    THEN FALSE
    ELSE LET trimmed == trim(nameWithVersion)
             parts == split(trimmed, "@")
         IN IF startsWith(trimmed, "@")
            THEN IF Len(parts) = 2
                 THEN validatePackageName(trimmed)
                 ELSE IF Len(parts) = 3
                 THEN LET packageName == <<"@">> \o parts[2]
                          version == parts[3]
                      IN IF ~validatePackageName(packageName)
                         THEN FALSE
                         ELSE test(versionRegex, version)
                 ELSE FALSE
            ELSE IF Len(parts) = 1
                 THEN validatePackageName(trimmed)
                 ELSE IF Len(parts) = 2
                 THEN LET version == parts[2]
                      IN test(versionRegex, version)
                 ELSE FALSE

validatePackageNameWithVersion(nameWithVersion) ==
    IF nameWithVersion = <<>> \/ trim(nameWithVersion) = <<>>
    THEN FALSE
    ELSE LET trimmed == trim(nameWithVersion)
             parts == split(trimmed, "@")
         IN IF startsWith(trimmed, "@")
            THEN IF Len(parts) = 2
                 THEN validatePackageName(trimmed)
                 ELSE IF Len(parts) = 3
                 THEN LET packageName == <<"@">> \o parts[2]
                          version == parts[3]
                      IN IF ~validatePackageName(packageName)
                         THEN FALSE
                         ELSE test(versionRegex, version)
                 ELSE FALSE
            ELSE IF Len(parts) = 1
                 THEN validatePackageName(trimmed)
                 ELSE IF Len(parts) = 2
                 THEN LET packageName == parts[1]
                          version == parts[2]
                      IN IF ~validatePackageName(packageName)
                         THEN FALSE
                         ELSE test(versionRegex, version)
                 ELSE FALSE

\* [a-zA-Z0-9:_-]
ScriptNameChar_withDot == Lower \cup Upper \cup Digit \cup {":", "_", "-", "."}

ScriptNameChar == Lower \cup Upper \cup Digit \cup {":", "_", "-"}

\* /^[a-zA-Z0-9:_-]+$/
scriptNameRegex == Plus(Cls(ScriptNameChar))

\* validateScriptName(name)
validateScriptName(name) ==
    IF name = <<>> \/ trim(name) = <<>>
    THEN FALSE
    ELSE test(scriptNameRegex, name)

\* validateScriptCommand(command)
validateScriptCommand(cmd) == cmd # <<>> /\ trim(cmd) # <<>>

\* The messages of the input-box adapters.
msg_PackageNameEmpty ==
    <<"P", "a", "c", "k", "a", "g", "e", " ", "n", "a", "m", "e", " ", "c", "a", "n", "n", "o", "t", " ", "b", "e", " ", "e", "m", "p", "t", "y">>
msg_InvalidPackageName ==
    <<"I", "n", "v", "a", "l", "i", "d", " ", "p", "a", "c", "k", "a", "g", "e", " ", "n", "a", "m", "e", ".", " ", "U", "s", "e", " ", "l", "o", "w", "e", "r", "c", "a", "s", "e", " ", "l", "e", "t", "t", "e", "r", "s", ",", " ", "n", "u", "m", "b", "e", "r", "s", ",", " ", "h", "y", "p", "h", "e", "n", "s", ",", " ", "a", "n", "d", " ", "d", "o", "t", "s", " ", "o", "n", "l", "y">>
msg_InvalidPackageNameOrVersion ==
    <<"I", "n", "v", "a", "l", "i", "d", " ", "p", "a", "c", "k", "a", "g", "e", " ", "n", "a", "m", "e", " ", "o", "r", " ", "v", "e", "r", "s", "i", "o", "n", ".", " ", "E", "x", "a", "m", "p", "l", "e", "s", ":", " ", "l", "o", "d", "a", "s", "h", ",", " ", "l", "o", "d", "a", "s", "h", "@", "4", ".", "0", ".", "0", ",", " ", "@", "t", "y", "p", "e", "s", "/", "n", "o", "d", "e", "@", "l", "a", "t", "e", "s", "t">>
msg_ScriptNameEmpty ==
    <<"S", "c", "r", "i", "p", "t", " ", "n", "a", "m", "e", " ", "c", "a", "n", "n", "o", "t", " ", "b", "e", " ", "e", "m", "p", "t", "y">>
msg_InvalidScriptName ==
    <<"I", "n", "v", "a", "l", "i", "d", " ", "s", "c", "r", "i", "p", "t", " ", "n", "a", "m", "e", ".", " ", "U", "s", "e", " ", "a", "l", "p", "h", "a", "n", "u", "m", "e", "r", "i", "c", " ", "c", "h", "a", "r", "a", "c", "t", "e", "r", "s", ",", " ", "h", "y", "p", "h", "e", "n", "s", ",", " ", "u", "n", "d", "e", "r", "s", "c", "o", "r", "e", "s", ",", " ", "a", "n", "d", " ", "c", "o", "l", "o", "n", "s", " ", "o", "n", "l", "y">>
msg_ScriptCommandEmpty ==
    <<"S", "c", "r", "i", "p", "t", " ", "c", "o", "m", "m", "a", "n", "d", " ", "c", "a", "n", "n", "o", "t", " ", "b", "e", " ", "e", "m", "p", "t", "y">>

\* One call of Logger.logValidation(input, type, isValid, error?).
logValidation(value, type, isValid, error) ==
    [input |-> value, type |-> type, isValid |-> isValid, error |-> error]

\* What an input-box adapter does: the value it returns (<<>> for null) and
\* the Logger.logValidation calls it makes.
Returned(msg, logs) == [message |-> msg, logged |-> logs]

\* validatePackageNameInput(value)
validatePackageNameInput_grammarFirst(value) ==
    IF ~validatePackageName(value)
    THEN Returned(Some(msg_InvalidPackageName),
                  <<logValidation(value, "package name", FALSE, "Invalid package name format")>>)
    ELSE Returned(Undefined, <<logValidation(value, "package name", TRUE, "")>>)

validatePackageNameInput(value) ==
    IF trim(value) = <<>>
    THEN Returned(Some(msg_PackageNameEmpty),
                  <<logValidation(value, "package name", FALSE, "Package name cannot be empty")>>)
    ELSE IF ~validatePackageName(value)
    THEN Returned(Some(msg_InvalidPackageName),
                  <<logValidation(value, "package name", FALSE, "Invalid package name format")>>)
    ELSE Returned(Undefined, <<logValidation(value, "package name", TRUE, "")>>)

\* validatePackageNameWithVersionInput(value)
validatePackageNameWithVersionInput(value) ==
    IF trim(value) = <<>>
    THEN Returned(Some(msg_PackageNameEmpty),
                  <<logValidation(value, "package name with version", FALSE,
                                  "Package name cannot be empty")>>)
    ELSE IF ~validatePackageNameWithVersion(value)
    THEN Returned(Some(msg_InvalidPackageNameOrVersion),
                  <<logValidation(value, "package name with version", FALSE,
                                  "Invalid package name or version format")>>)
    ELSE Returned(Undefined, <<logValidation(value, "package name with version", TRUE, "")>>)

\* validateScriptNameInput(value)
validateScriptNameInput(value) ==
    IF trim(value) = <<>>
    THEN Returned(Some(msg_ScriptNameEmpty), <<>>)
    ELSE IF ~validateScriptName(value)
    THEN Returned(Some(msg_InvalidScriptName), <<>>)
    ELSE Returned(Undefined, <<>>)

\* validateScriptCommandInput(value)
validateScriptCommandInput_acceptAll(value) == Returned(Undefined, <<>>)

validateScriptCommandInput(value) ==
    IF trim(value) = <<>>
    THEN Returned(Some(msg_ScriptCommandEmpty), <<>>)
    ELSE Returned(Undefined, <<>>)

-----------------------------------------------------------------------------
(* Inputs                                                                  *)

MaxLen == 3          \* longest string of RawStrings
MaxVersionLen == 4   \* longest version part of VersionedStrings

\* All strings over the set of characters A of length at most n.
Strings(A, n) == UNION {[1..k -> A] : k \in 0..n}

\* One or two characters from each class the validators tell apart.
Alphabet == {"a", "B", "1", "-", "~", ".", "_", "@", "/", " ", "!", "^", ">", "<", "=", "|"}
VersionAlphabet == {"1", "_", ".", "^", ">", "=", "|", " ", "!"}

RawStrings == Strings(Alphabet, MaxLen)

\* <name>@<version> for an unscoped and a scoped name and every short version.
VersionedStrings ==
    {n \o <<"@">> \o v : n \in {<<"a">>, <<"@", "a", "/", "a">>},
                         v \in Strings(VersionAlphabet, MaxVersionLen)}

\* n copies of the character c
Rep(c, n) == [i \in 1..n |-> c]

\* Names at and just above the length limit, bare, scoped and with a version.
LongStrings ==
    { Rep("a", MaxPackageNameLength),
      Rep("a", MaxPackageNameLength + 1),
      <<"@", "a", "/">> \o Rep("a", MaxPackageNameLength - 3),
      <<"@", "a", "/">> \o Rep("a", MaxPackageNameLength - 2),
      Rep("a", MaxPackageNameLength) \o <<"@", "1">>,
      Rep("a", MaxPackageNameLength + 1) \o <<"@", "1">> }

\* The names of the validatePackageName tests.
PackageNameExamples ==
    { <<"r", "e", "a", "c", "t">>,
      <<"l", "o", "d", "a", "s", "h">>,
      <<"@", "t", "y", "p", "e", "s", "/", "n", "o", "d", "e">>,
      <<"@", "a", "n", "g", "u", "l", "a", "r", "/", "c", "o", "r", "e">>,
      <<"m", "y", "-", "p", "a", "c", "k", "a", "g", "e">>,
      <<"p", "a", "c", "k", "a", "g", "e", "_", "n", "a", "m", "e">>,
      <<"p", "a", "c", "k", "a", "g", "e", ".", "n", "a", "m", "e">>,
      <<>>,
      <<" ", " ", " ">>,
      <<"p", "a", "c", "k", "a", "g", "e", " ", "w", "i", "t", "h", " ", "s", "p", "a", "c", "e", "s">>,
      <<"p", "a", "c", "k", "a", "g", "e", "!">>,
      <<"p", "a", "c", "k", "a", "g", "e", "#", "h", "a", "s", "h">>,
      <<"p", "a", "c", "k", "a", "g", "e", "$">>,
      <<"p", "a", "c", "k", "a", "g", "e", "%">>,
      <<"@">>,
      <<"@", "s", "c", "o", "p", "e", "/">>,
      <<"@", "/", "p", "a", "c", "k", "a", "g", "e">> }

\* The inputs of the validatePackageNameWithVersion tests and further ones.
VersionedExamples ==
    { <<"r", "e", "a", "c", "t", "@", "1", "8", ".", "0", ".", "0">>,
      <<"l", "o", "d", "a", "s", "h", "@", "4", ".", "1", "7", ".", "2", "1">>,
      <<"@", "t", "y", "p", "e", "s", "/", "n", "o", "d", "e", "@", "1", "8", ".", "0", ".", "0">>,
      <<"@", "a", "n", "g", "u", "l", "a", "r", "/", "c", "o", "r", "e", "@", "1", "5", ".", "1", ".", "0">>,
      <<"m", "y", "-", "p", "a", "c", "k", "a", "g", "e", "@", "1", ".", "0", ".", "0">>,
      <<"p", "a", "c", "k", "a", "g", "e", "@", "^", "1", ".", "2", ".", "3">>,
      <<"p", "a", "c", "k", "a", "g", "e", "@", "~", "1", ".", "2", ".", "3">>,
      <<"p", "a", "c", "k", "a", "g", "e", "@", ">", "=", "1", ".", "2", ".", "3">>,
      <<"p", "a", "c", "k", "a", "g", "e", "@", "l", "a", "t", "e", "s", "t">>,
      <<"p", "a", "c", "k", "a", "g", "e", "@", "n", "e", "x", "t">>,
      <<"p", "a", "c", "k", "a", "g", "e", "@", "b", "e", "t", "a">>,
      <<"p", "a", "c", "k", "a", "g", "e", "@", "a", "l", "p", "h", "a">>,
      <<"l", "o", "d", "a", "s", "h", "@", "^", "1", ".", "2", ".", "3">>,
      <<"@", "t", "y", "p", "e", "s", "/", "n", "o", "d", "e", "@", "l", "a", "t", "e", "s", "t">>,
      <<"p", "a", "c", "k", "a", "g", "e", " ", "w", "i", "t", "h", " ", "s", "p", "a", "c", "e", "s", "@", "1", ".", "0", ".", "0">>,
      <<"@", "i", "n", "v", "a", "l", "i", "d", "@", "1", ".", "0", ".", "0">>,
      <<"p", "a", "c", "k", "a", "g", "e", "@">>,
      <<"p", "a", "c", "k", "a", "g", "e", "@", "i", "n", "v", "a", "l", "i", "d", "-", "v", "e", "r", "s", "i", "o", "n", "!">>,
      <<"p", "a", "c", "k", "a", "g", "e", "@", "@", "1", ".", "0", ".", "0">>,
      <<"p", "a", "c", "k", "a", "g", "e", "@", "1", ".", "0", ".", "0", " ", "|", "|", " ", "2", ".", "0", ".", "0">>,
      <<"p", "a", "c", "k", "a", "g", "e", "@", "<", "=", "1", ".", "2", ".", "3">>,
      <<"p", "a", "c", "k", "a", "g", "e", "@", "<", "2">>,
      <<" ", "r", "e", "a", "c", "t", " ">>,
      <<" ", "@", "t", "y", "p", "e", "s", "/", "n", "o", "d", "e">>,
      <<"R", "e", "a", "c", "t">>,
      <<"@", "t", "y", "p", "e", "s", "/", "n", "o", "d", "e", "@", "1", "_", "0">> }

\* The names and commands of the validateScriptName and validateScriptCommand tests.
ScriptNameExamples ==
    { <<"s", "t", "a", "r", "t">>,
      <<"b", "u", "i", "l", "d">>,
      <<"t", "e", "s", "t">>,
      <<"d", "e", "v">>,
      <<"b", "u", "i", "l", "d", ":", "p", "r", "o", "d">>,
      <<"t", "e", "s", "t", ":", "w", "a", "t", "c", "h">>,
      <<"s", "c", "r", "i", "p", "t", "_", "n", "a", "m", "e">>,
      <<"s", "c", "r", "i", "p", "t", "-", "n", "a", "m", "e">>,
      <<"s", "c", "r", "i", "p", "t", " ", "w", "i", "t", "h", " ", "s", "p", "a", "c", "e", "s">>,
      <<"s", "c", "r", "i", "p", "t", "!">>,
      <<"s", "c", "r", "i", "p", "t", "@", "v", "e", "r", "s", "i", "o", "n">>,
      <<"s", "c", "r", "i", "p", "t", "#", "h", "a", "s", "h">>,
      <<"n", "o", "d", "e", " ", "i", "n", "d", "e", "x", ".", "j", "s">> }

Inputs == RawStrings \cup VersionedStrings \cup LongStrings
          \cup PackageNameExamples \cup VersionedExamples \cup ScriptNameExamples

\* Arguments of the command builders.
\* Package names handed to the command builders.
PackageTokens ==
    { <<"r", "e", "a", "c", "t">>,
      <<"t", "y", "p", "e", "s", "c", "r", "i", "p", "t">>,
      <<"l", "o", "d", "a", "s", "h", "@", "4", ".", "0", ".", "0">>,
      <<"@", "t", "y", "p", "e", "s", "/", "n", "o", "d", "e">>,
      <<>> }

\* Versions handed to getUpdateCommand.
VersionTokens ==
    { <<"1", "8", ".", "2", ".", "0">>,
      <<"^", "1", "8", ".", "0", ".", "0">>,
      <<"l", "a", "t", "e", "s", "t">>,
      <<"n", "e", "x", "t">>,
      <<>> }

\* Script names handed to getRunCommand.
ScriptTokens ==
    { <<"s", "t", "a", "r", "t">>,
      <<"b", "u", "i", "l", "d", ":", "p", "r", "o", "d">> }

\* Values the nodeProjectManager.packageManager setting can hold: the four
\* names, and any other string a user writes into the settings file.
SettingValues == PackageManagerName \cup {"deno"}

-----------------------------------------------------------------------------
(* State machine of the detector: the workspace changes under the user's   *)
(* hands, and the operations of PackageManagerDetector are called.         *)

\* No command of the extension has run: settings unset, no handler, no
\* terminal, nothing shown, and a workspace root without package.json.
NoCommands ==
    /\ showTerminal = Undefined
    /\ confirmActions = Undefined
    /\ manifest = [parses |-> FALSE, dependencies |-> {}, devDependencies |-> {},
                   scripts |-> Undefined]
    /\ clientName = "npm"
    /\ terminals = <<>>
    /\ scriptTerminal = 0
    /\ handler = "none"
    /\ pc = "done"
    /\ local = [userInput |-> Undefined, package |-> Undefined,
                versionChoice |-> Undefined, targetVersion |-> Undefined,
                scriptName |-> Undefined, scriptCommand |-> Undefined,
                confirmActions |-> Undefined, dialog |-> Undefined,
                answer |-> Undefined, viaMenu |-> FALSE]
    /\ sent = <<>>
    /\ notices = <<>>
    /\ results = <<>>
    /\ tasks = <<>>
    /\ completed = Undefined

Init ==
    /\ workspaceFolder = FALSE
    /\ files = {}
    /\ packageManager = Undefined
    /\ op = "none"
    /\ argPackage = Undefined
    /\ argVersion = Undefined
    /\ argDev = FALSE
    /\ detected = "npm"
    /\ probed = <<>>
    /\ configRead = FALSE
    /\ command = <<>>
    /\ input = <<>>
    /\ verdict = FALSE
    /\ found = FALSE
    /\ path = Undefined
    /\ message = Undefined
    /\ logged = <<>>
    /\ NoCommands

\* A returned value is held only until the workspace changes: a change of
\* the workspace leaves no call result behind.
NoCall ==
    /\ op' = "none"
    /\ argPackage' = Undefined
    /\ argVersion' = Undefined
    /\ argDev' = FALSE
    /\ detected' = "npm"
    /\ probed' = <<>>
    /\ configRead' = FALSE
    /\ command' = <<>>
    /\ found' = FALSE
    /\ path' = Undefined

\* The user opens or closes a workspace folder.
OpenWorkspace ==
    /\ ~workspaceFolder
    /\ workspaceFolder' = TRUE
    /\ NoCall
    /\ UNCHANGED <<files, packageManager, validatorVars>>
    /\ UNCHANGED commandVars

CloseWorkspace ==
    /\ workspaceFolder
    /\ workspaceFolder' = FALSE
    /\ NoCall
    /\ UNCHANGED <<files, packageManager, validatorVars>>
    /\ UNCHANGED commandVars

\* A lock file or package.json appears in or disappears from the workspace root.
CreateFile(f) ==
    /\ f \notin files
    /\ files' = files \cup {f}
    /\ NoCall
    /\ UNCHANGED <<workspaceFolder, packageManager, validatorVars>>
    /\ UNCHANGED commandVars

DeleteFile(f) ==
    /\ f \in files
    /\ files' = files \ {f}
    /\ NoCall
    /\ UNCHANGED <<workspaceFolder, packageManager, validatorVars>>
    /\ UNCHANGED commandVars

\* The user edits the nodeProjectManager.packageManager setting.
SetPackageManager(v) ==
    /\ packageManager # v
    /\ packageManager' = v
    /\ NoCall
    /\ UNCHANGED <<workspaceFolder, files, validatorVars>>
    /\ UNCHANGED commandVars

\* What a run of detect() leaves behind.
RunDetect ==
    /\ detected' = detect.manager
    /\ probed' = detect.probed
    /\ configRead' = detect.configRead

\* Each call records its own arguments and result; arguments it does not
\* take are recorded as undefined (isDev as its default, false).
Detect ==
    /\ op' = "detect"
    /\ RunDetect
    /\ argPackage' = Undefined
    /\ argVersion' = Undefined
    /\ argDev' = FALSE
    /\ command' = <<>>
    /\ found' = FALSE
    /\ path' = Undefined
    /\ UNCHANGED <<envVars, validatorVars>>
    /\ UNCHANGED commandVars

GetInstallCommand(packageName, isDev) ==
    /\ op' = "getInstallCommand"
    /\ argPackage' = packageName
    /\ argVersion' = Undefined
    /\ argDev' = isDev
    /\ RunDetect
    /\ command' = getInstallCommand(packageName, isDev)
    /\ found' = FALSE
    /\ path' = Undefined
    /\ UNCHANGED <<envVars, validatorVars>>
    /\ UNCHANGED commandVars

GetRemoveCommand(packageName) ==
    /\ op' = "getRemoveCommand"
    /\ argPackage' = Some(packageName)
    /\ argVersion' = Undefined
    /\ argDev' = FALSE
    /\ RunDetect
    /\ command' = getRemoveCommand(packageName)
    /\ found' = FALSE
    /\ path' = Undefined
    /\ UNCHANGED <<envVars, validatorVars>>
    /\ UNCHANGED commandVars

GetUpdateCommand(packageName, version) ==
    /\ op' = "getUpdateCommand"
    /\ argPackage' = Some(packageName)
    /\ argVersion' = version
    /\ argDev' = FALSE
    /\ RunDetect
    /\ command' = getUpdateCommand(packageName, version)
    /\ found' = FALSE
    /\ path' = Undefined
    /\ UNCHANGED <<envVars, validatorVars>>
    /\ UNCHANGED commandVars

GetAuditCommand ==
    /\ op' = "getAuditCommand"
    /\ argPackage' = Undefined
    /\ argVersion' = Undefined
    /\ argDev' = FALSE
    /\ RunDetect
    /\ command' = getAuditCommand
    /\ found' = FALSE
    /\ path' = Undefined
    /\ UNCHANGED <<envVars, validatorVars>>
    /\ UNCHANGED commandVars

GetRunCommand(scriptName) ==
    /\ op' = "getRunCommand"
    /\ argPackage' = Some(scriptName)
    /\ argVersion' = Undefined
    /\ argDev' = FALSE
    /\ RunDetect
    /\ command' = getRunCommand(scriptName)
    /\ found' = FALSE
    /\ path' = Undefined
    /\ UNCHANGED <<envVars, validatorVars>>
    /\ UNCHANGED commandVars

HasPackageJson ==
    /\ op' = "hasPackageJson"
    /\ found' = hasPackageJson
    /\ path' = Undefined
    /\ argPackage' = Undefined
    /\ argVersion' = Undefined
    /\ argDev' = FALSE
    /\ detected' = "npm"
    /\ probed' = <<>>
    /\ configRead' = FALSE
    /\ command' = <<>>
    /\ UNCHANGED <<envVars, validatorVars>>
    /\ UNCHANGED commandVars

GetPackageJsonPath ==
    /\ op' = "getPackageJsonPath"
    /\ found' = FALSE
    /\ path' = getPackageJsonPath
    /\ argPackage' = Undefined
    /\ argVersion' = Undefined
    /\ argDev' = FALSE
    /\ detected' = "npm"
    /\ probed' = <<>>
    /\ configRead' = FALSE
    /\ command' = <<>>
    /\ UNCHANGED <<envVars, validatorVars>>
    /\ UNCHANGED commandVars

Next ==
    \/ OpenWorkspace
    \/ CloseWorkspace
    \/ \E f \in WorkspaceFileNames : CreateFile(f)
    \/ \E f \in WorkspaceFileNames : DeleteFile(f)
    \/ \E v \in {Undefined} \cup {Some(m) : m \in SettingValues} : SetPackageManager(v)
    \/ Detect
    \/ \E p \in {Undefined} \cup {Some(t) : t \in PackageTokens}, d \in BOOLEAN :
          GetInstallCommand(p, d)
    \/ \E p \in PackageTokens \ {<<>>} : GetRemoveCommand(p)
    \/ \E p \in PackageTokens \ {<<>>},
          v \in {Undefined} \cup {Some(t) : t \in VersionTokens} :
          GetUpdateCommand(p, v)
    \/ GetAuditCommand
    \/ \E s \in ScriptTokens : GetRunCommand(s)
    \/ HasPackageJson
    \/ GetPackageJsonPath

Spec == Init /\ [][Next]_vars

-----------------------------------------------------------------------------
(* State machine of the validators: the input is any of Inputs, and the    *)
(* predicates of ValidationUtils are applied to it.                        *)

InitValidation ==
    /\ workspaceFolder = FALSE
    /\ files = {}
    /\ packageManager = Undefined
    /\ op = "none"
    /\ argPackage = Undefined
    /\ argVersion = Undefined
    /\ argDev = FALSE
    /\ detected = "npm"
    /\ probed = <<>>
    /\ configRead = FALSE
    /\ command = <<>>
    /\ input \in Inputs
    /\ verdict = FALSE
    /\ found = FALSE
    /\ path = Undefined
    /\ message = Undefined
    /\ logged = <<>>
    /\ NoCommands

\* A call of a predicate returns a boolean; no message, nothing logged.
ValidatePackageName ==
    /\ op' = "validatePackageName"
    /\ verdict' = validatePackageName(input)
    /\ message' = Undefined
    /\ logged' = <<>>
    /\ UNCHANGED <<envVars, callVars, detectVars, manifestVars, command, input>>
    /\ UNCHANGED commandVars

ValidatePackageNameWithVersion ==
    /\ op' = "validatePackageNameWithVersion"
    /\ verdict' = validatePackageNameWithVersion(input)
    /\ message' = Undefined
    /\ logged' = <<>>
    /\ UNCHANGED <<envVars, callVars, detectVars, manifestVars, command, input>>
    /\ UNCHANGED commandVars

ValidateScriptName ==
    /\ op' = "validateScriptName"
    /\ verdict' = validateScriptName(input)
    /\ message' = Undefined
    /\ logged' = <<>>
    /\ UNCHANGED <<envVars, callVars, detectVars, manifestVars, command, input>>
    /\ UNCHANGED commandVars

ValidateScriptCommand ==
    /\ op' = "validateScriptCommand"
    /\ verdict' = validateScriptCommand(input)
    /\ message' = Undefined
    /\ logged' = <<>>
    /\ UNCHANGED <<envVars, callVars, detectVars, manifestVars, command, input>>
    /\ UNCHANGED commandVars

\* A call of an input-box adapter returns a message or null, and logs.
CallAdapter(name, result) ==
    /\ op' = name
    /\ message' = result.message
    /\ logged' = result.logged
    /\ verdict' = FALSE
    /\ UNCHANGED <<envVars, callVars, detectVars, manifestVars, command, input>>
    /\ UNCHANGED commandVars

ValidatePackageNameInput ==
    CallAdapter("validatePackageNameInput", validatePackageNameInput(input))

ValidatePackageNameWithVersionInput ==
    CallAdapter("validatePackageNameWithVersionInput", validatePackageNameWithVersionInput(input))

ValidateScriptNameInput ==
    CallAdapter("validateScriptNameInput", validateScriptNameInput(input))

ValidateScriptCommandInput ==
    CallAdapter("validateScriptCommandInput", validateScriptCommandInput(input))

NextValidation ==
    \/ ValidatePackageName
    \/ ValidatePackageNameWithVersion
    \/ ValidateScriptName
    \/ ValidateScriptCommand
    \/ ValidatePackageNameInput
    \/ ValidatePackageNameWithVersionInput
    \/ ValidateScriptNameInput
    \/ ValidateScriptCommandInput

SpecValidation == InitValidation /\ [][NextValidation]_vars

-----------------------------------------------------------------------------
(* The commands of the extension: CommandManager, Client, the script       *)
(* functions, QuickPickManager and Terminal                                *)

\* The most addNewScript calls that wait for a file callback at one time.
MaxTasks == 2

\* The local variables of a handler that has not assigned any.
NoLocal ==
    [userInput |-> Undefined, package |-> Undefined,
     versionChoice |-> Undefined, targetVersion |-> Undefined,
     scriptName |-> Undefined, scriptCommand |-> Undefined,
     confirmActions |-> Undefined, dialog |-> Undefined,
     answer |-> Undefined, viaMenu |-> FALSE]

\* A package.json that is missing or is no JSON text.
NoManifest ==
    [parses |-> FALSE, dependencies |-> {}, devDependencies |-> {}, scripts |-> Undefined]

\* What the handlers and callbacks work on: everything a step can change.
Run ==
    [handler |-> handler, pc |-> pc, local |-> local, sent |-> sent,
     notices |-> notices, results |-> results,
     terminals |-> terminals, scriptTerminal |-> scriptTerminal,
     manifest |-> manifest, tasks |-> tasks, completed |-> Undefined]

\* vscode.window.showErrorMessage and ValidationUtils.showErrorMessage
ErrorMessage(text) == [kind |-> "error", text |-> text, arg |-> <<>>]

\* ValidationUtils.showSuccessMessage, text followed by an interpolated name
SuccessMessage(text, arg) == [kind |-> "success", text |-> text, arg |-> arg]

\* vscode.window.showInformationMessage
InformationMessage(text) == [kind |-> "information", text |-> text, arg |-> <<>>]

show(r, notice) == [r EXCEPT !.notices = Append(@, notice)]

\* Logger.logCommandResult(command, success)
logCommandResult(r, commandName, success) ==
    [r EXCEPT !.results = Append(@, [command |-> commandName, success |-> success])]

\* The handler returns; openMainMenu, when the handler ran from its menus,
\* then logs its own result.
return(r) ==
    IF r.local.viaMenu
    THEN [logCommandResult(r, "openMainMenu", TRUE) EXCEPT !.pc = "done"]
    ELSE [r EXCEPT !.pc = "done"]

\* getScriptTerminal() without the test of exitStatus.
getScriptTerminal_keepsExited(r) ==
    IF r.scriptTerminal = 0
    THEN [r EXCEPT !.terminals = Append(@, "live"),
                   !.scriptTerminal = Len(r.terminals) + 1]
    ELSE r

\* Terminal.getScriptTerminal(): the stored terminal, or a new one, stored
\* in its place, when none is stored or the stored one has an exit status.
getScriptTerminal(r) ==
    IF r.scriptTerminal = 0 \/ r.terminals[r.scriptTerminal] # "live"
    THEN [r EXCEPT !.terminals = Append(@, "live"),
                   !.scriptTerminal = Len(r.terminals) + 1]
    ELSE r

\* Terminal.executeInTerminal(command): by is the operation that sends,
\* ident the identifier it interpolated (<<>> when it has none).
executeInTerminal(r, cmd, by, ident) ==
    LET fetched == getScriptTerminal(r)
    IN [fetched EXCEPT !.sent = Append(@, [command |-> cmd, via |-> "terminal",
                                           by |-> by, ident |-> ident,
                                           terminal |-> fetched.scriptTerminal])]

\* Terminal.executeInBackground(command)
executeInBackground(r, cmd, by, ident) ==
    [r EXCEPT !.sent = Append(@, [command |-> cmd, via |-> "background",
                                  by |-> by, ident |-> ident, terminal |-> 0])]

\* new Terminal().send({command, show})
send(r, cmd, showIt, by, ident) ==
    IF showIt
    THEN executeInTerminal(r, cmd, by, ident)
    ELSE executeInBackground(r, cmd, by, ident)

\* new Client(name?): this.name = name || PackageManagerDetector.detect()
Client_constructor(arg) ==
    IF IsDefined(arg)
    THEN ValueOf(arg)
    ELSE detectIn(workspaceFolder, files, packageManager).manager

\* Terminal.close(): the stored terminal, if there is one, is disposed of
\* and the field is cleared.
close(r) ==
    IF r.scriptTerminal # 0
    THEN [r EXCEPT !.terminals[r.scriptTerminal] = "disposed", !.scriptTerminal = 0]
    ELSE r

\* The command a Client operation builds.
ClientCommand(operation, packageNames) ==
    CASE operation = "install" -> getInstallCommand(Undefined, FALSE)
      [] operation = "add" -> getInstallCommand(packageNames, FALSE)
      [] operation = "addDevDependencies" -> getInstallCommand(packageNames, TRUE)
      [] operation = "remove" -> getRemoveCommand(ValueOf(packageNames))
      [] operation = "update" -> getUpdateCommand(ValueOf(packageNames), Undefined)
      [] operation = "audit" -> getAuditCommand

\* The message a Client operation shows before it rethrows.
ClientFailure(operation) ==
    CASE operation = "install" -> "Failed to install packages"
      [] operation = "add" -> "Failed to install package"
      [] operation = "addDevDependencies" -> "Failed to add dev dependency"
      [] operation = "remove" -> "Failed to remove package"
      [] operation = "update" -> "Failed to update package"
      [] operation = "audit" -> "Failed to audit packages"

\* Client.install, add, addDevDependencies, remove, update, audit: build the
\* command and send it with show: true; throws: the terminal throws, the
\* operation shows its message and rethrows.
clientOperation(r, operation, packageNames, throws) ==
    IF throws
    THEN show(r, ErrorMessage(ClientFailure(operation)))
    ELSE send(r, ClientCommand(operation, packageNames), TRUE, operation, packageNames)

\* The message of a handler's catch block.
HandlerFailure(h) ==
    CASE h = "installDependencies" -> "Failed to install dependencies"
      [] h = "addDependency" -> "Failed to add dependency"
      [] h = "addDevDependency" -> "Failed to add dev dependency"
      [] h = "removeDependency" -> "Failed to remove dependency"
      [] h = "updateDependency" -> "Failed to update dependency"
      [] h = "auditDependencies" -> "Failed to audit dependencies"

\* The success message of a handler; updateDependency shows none.
HandlerSuccess(h) ==
    CASE h = "installDependencies" -> "Installing all dependencies. Check terminal for results."
      [] h = "addDependency" -> "Installing dependency: "
      [] h = "addDevDependency" -> "Installing dev dependency: "
      [] h = "removeDependency" -> "Removing dependency: "
      [] h = "auditDependencies" -> "Running security audit. Check terminal for results."
      [] h = "updateDependency" -> ""

\* The try block without the catch block that follows it.
runClient_noCatch(r, operation, packageNames, throws) ==
    LET after == clientOperation(r, operation, packageNames, throws)
    IN IF throws
       THEN return(after)
       ELSE return(logCommandResult(
                     IF r.handler = "updateDependency"
                     THEN after
                     ELSE show(after, SuccessMessage(HandlerSuccess(r.handler),
                                                     IF IsDefined(packageNames)
                                                     THEN ValueOf(packageNames) ELSE <<>>)),
                     r.handler, TRUE))

\* The Client operation in a handler's try block, and what follows it:
\* success message and result, or the catch block.
runClient(r, operation, packageNames, throws) ==
    LET after == clientOperation(r, operation, packageNames, throws)
    IN IF throws
       THEN return(logCommandResult(show(after, ErrorMessage(HandlerFailure(r.handler))),
                                    r.handler, FALSE))
       ELSE return(logCommandResult(
                     IF r.handler = "updateDependency"
                     THEN after
                     ELSE show(after, SuccessMessage(HandlerSuccess(r.handler),
                                                     IF IsDefined(packageNames)
                                                     THEN ValueOf(packageNames) ELSE <<>>)),
                     r.handler, TRUE))

\* QuickPickManager.showInstalledDependencies(action), up to its quick pick.
InstalledDependencies(m) == m.dependencies \cup m.devDependencies

showInstalledDependencies(r) ==
    IF getPackageJsonPath = Undefined
    THEN return(r)
    ELSE IF ~r.manifest.parses
    THEN return(show(r, ErrorMessage("Failed to read package.json")))
    ELSE IF InstalledDependencies(r.manifest) = {}
    THEN return(show(r, InformationMessage("No dependencies found in package.json")))
    ELSE [r EXCEPT !.pc = "showInstalledDependencies"]

\* QuickPickManager.showAvailableScripts(), up to its quick pick.
showAvailableScripts(r) ==
    IF getPackageJsonPath = Undefined
    THEN return(r)
    ELSE IF ~r.manifest.parses
    THEN return(show(r, ErrorMessage("Failed to read package.json")))
    ELSE IF ~IsDefined(r.manifest.scripts) \/ DOMAIN ValueOf(r.manifest.scripts) = {}
    THEN return(show(r, InformationMessage("No scripts found in package.json")))
    ELSE [r EXCEPT !.pc = "showAvailableScripts"]

\* extractAndDisplayScripts(), up to its quick pick (the readFile callback
\* runs before the user can act).
extractAndDisplayScripts(r) ==
    IF ~(workspaceFolder /\ existsSync_package_json(files))
    THEN return(show(r, ErrorMessage("No package.json found in the workspace")))
    ELSE IF ~r.manifest.parses
    THEN return(show(r, ErrorMessage("Error parsing package.json file")))
    ELSE IF IsDefined(r.manifest.scripts)
    THEN [r EXCEPT !.pc = "createQuickPick"]
    ELSE return(show(r, InformationMessage("No scripts found in package.json")))

\* QuickPickManager.showConfirmation(message, action, detail), up to its
\* dialog: the setting is read, and without it the answer is true at once.
readConfirmActions(r) ==
    [r EXCEPT !.local.confirmActions = Some(configGet(confirmActions, TRUE))]

\* The result of the dialog: true exactly for the action button.
confirmed_notCancel(answer, action) == answer # Some("Cancel")

confirmed(answer, action) == answer = Some(action)

\* runScript(scriptName); throws: the terminal throws; ok: the background
\* process ends with code 0.
runScript(r, scriptName, throws, ok) ==
    LET cmd == getRunCommand(scriptName)
    IN IF configGet(showTerminal, TRUE)
       THEN IF throws
            THEN show(r, ErrorMessage("Failed to run script"))
            ELSE show(executeInTerminal(r, cmd, "runScript", Some(scriptName)),
                      SuccessMessage("Running script: ", scriptName))
       ELSE IF ok
            THEN show(executeInBackground(r, cmd, "runScript", Some(scriptName)),
                      SuccessMessage("Script <arg> completed successfully", scriptName))
            ELSE show(executeInBackground(r, cmd, "runScript", Some(scriptName)),
                      ErrorMessage("Failed to run script"))

\* scripts[scriptName] = scriptCommand
setScript(scripts, scriptName, scriptCommand) ==
    [n \in DOMAIN scripts \cup {scriptName} |->
        IF n = scriptName THEN scriptCommand ELSE scripts[n]]

\* What an addNewScript call leaves behind when it has finished.
Outcome(scriptName, scriptCommand, outcome) ==
    Some([scriptName |-> scriptName, scriptCommand |-> scriptCommand, outcome |-> outcome])

\* addNewScript(scriptName, scriptCommand), up to its readFile call.
addNewScript(r, scriptName, scriptCommand) ==
    IF workspaceFolder /\ existsSync_package_json(files)
    THEN [r EXCEPT !.tasks = Append(@, [scriptName |-> scriptName,
                                        scriptCommand |-> scriptCommand,
                                        waitsFor |-> "readFile",
                                        data |-> Undefined])]
    ELSE [show(r, ErrorMessage("No package.json found in the workspace"))
            EXCEPT !.completed = Outcome(scriptName, scriptCommand, "noFile")]

\* The sequence without its i-th element.
Without(seq, i) == SubSeq(seq, 1, i - 1) \o SubSeq(seq, i + 1, Len(seq))

\* The readFile callback of addNewScript.
readFileCallback(r, i, err) ==
    LET t == r.tasks[i]
        ended(outcome) == [r EXCEPT !.tasks = Without(@, i),
                                    !.completed = Outcome(t.scriptName, t.scriptCommand, outcome)]
    IN IF err
       THEN show(ended("readError"), ErrorMessage("Error reading package.json file"))
       ELSE IF ~r.manifest.parses
       THEN show(ended("parseError"), ErrorMessage("Error parsing package.json file"))
       ELSE IF IsDefined(r.manifest.scripts)
       THEN [r EXCEPT !.tasks[i].waitsFor = "writeFile",
                      !.tasks[i].data =
                          Some([r.manifest EXCEPT !.scripts =
                                  Some(setScript(ValueOf(@), t.scriptName, t.scriptCommand))])]
       ELSE show(ended("noScripts"), InformationMessage("No scripts found in package.json"))

\* The writeFile callback of addNewScript; the file has its new content
\* when the callback runs without an error.
writeFileCallback(r, i, err) ==
    LET t == r.tasks[i]
        ended(outcome) == [r EXCEPT !.tasks = Without(@, i),
                                    !.completed = Outcome(t.scriptName, t.scriptCommand, outcome)]
    IN IF err
       THEN show(ended("writeError"), ErrorMessage("Error writing package.json file"))
       ELSE show([ended("written") EXCEPT !.manifest = ValueOf(t.data)],
                 InformationMessage("Script added to package.json"))

\* /^(\^|~|>=|<=|>|<)?[\d\w.-]+(\s*\|\|\s*[\d\w.-]+)*$|^latest$|^next$/
versionPromptRegex ==
    Alt(<< Cat(<< Opt(Alt(<< Lit(<<"^">>), Lit(<<"~">>), Lit(<<">", "=">>),
                             Lit(<<"<", "=">>), Lit(<<">">>), Lit(<<"<">>) >>)),
                  Plus(Cls(VersionChar)),
                  Star(Cat(<< Star(Cls(WhiteSpace)), Lit(<<"|", "|">>),
                              Star(Cls(WhiteSpace)), Plus(Cls(VersionChar)) >>)) >>),
           Lit(<<"l", "a", "t", "e", "s", "t">>),
           Lit(<<"n", "e", "x", "t">>) >>)

\* validateInput of the version prompt of updateDependency: <<>> for null.
validateVersionInput(value) ==
    IF trim(value) = <<>>
    THEN Some("Version cannot be empty")
    ELSE IF ~test(versionPromptRegex, trim(value))
    THEN Some("Invalid version format. Examples: 1.2.3, ^2.0.0, ~1.5.0, latest")
    ELSE Undefined

\* The handler without its test of hasPackageJson().
begin_noPackageJsonCheck(r0, h, viaMenu, throws) ==
    LET r == [r0 EXCEPT !.handler = h, !.local = [NoLocal EXCEPT !.viaMenu = viaMenu]]
    IN IF FALSE
       THEN return(show(r, ErrorMessage("No package.json found in workspace")))
       ELSE CASE h = "openMainMenu" -> [r EXCEPT !.pc = "showMainMenu"]
              [] h = "useScripts" ->
                   extractAndDisplayScripts(logCommandResult(r, "useScripts", TRUE))
              [] h = "installDependencies" -> runClient(r, "install", Undefined, throws)
              [] h = "auditDependencies" -> runClient(r, "audit", Undefined, throws)
              [] h \in {"addDependency", "addDevDependency"} ->
                   [r EXCEPT !.pc = "getValidatedInput"]
              [] h \in {"removeDependency", "updateDependency"} ->
                   showInstalledDependencies(r)
              [] h = "addScript" -> [r EXCEPT !.pc = "scriptName"]

\* A handler from its first statement; viaMenu: it runs from the menus of
\* openMainMenu.
begin(r0, h, viaMenu, throws) ==
    LET r == [r0 EXCEPT !.handler = h, !.local = [NoLocal EXCEPT !.viaMenu = viaMenu]]
    IN IF ~hasPackageJson
       THEN return(show(r, ErrorMessage("No package.json found in workspace")))
       ELSE CASE h = "openMainMenu" -> [r EXCEPT !.pc = "showMainMenu"]
              [] h = "useScripts" ->
                   extractAndDisplayScripts(logCommandResult(r, "useScripts", TRUE))
              [] h = "installDependencies" -> runClient(r, "install", Undefined, throws)
              [] h = "auditDependencies" -> runClient(r, "audit", Undefined, throws)
              [] h \in {"addDependency", "addDevDependency"} ->
                   [r EXCEPT !.pc = "getValidatedInput"]
              [] h \in {"removeDependency", "updateDependency"} ->
                   showInstalledDependencies(r)
              [] h = "addScript" -> [r EXCEPT !.pc = "scriptName"]

-----------------------------------------------------------------------------
(* Inputs of the commands                                                  *)

Handlers == {"openMainMenu", "useScripts", "installDependencies", "addDependency",
             "removeDependency", "updateDependency", "auditDependencies",
             "addScript", "addDevDependency"}

\* What a user types into the dependency prompt.
TypedPackages ==
    { <<"r", "e", "a", "c", "t">>,
      <<"l", "o", "d", "a", "s", "h", "@", "4", ".", "0", ".", "0">>,
      <<"a", " ", "b">> }

\* What a user types into the version prompt.
TypedVersions ==
    { <<"1", ".", "2", ".", "3">>,
      <<"1", " ", "2">> }

\* What a user types into the script name and script command prompts.
TypedScriptNames ==
    { <<"b", "u", "i", "l", "d">>,
      <<"l", "i", "n", "t">>,
      <<"a", " ", "b">> }

TypedScriptCommands ==
    { <<"t", "s", "c">>,
      <<" ">> }

\* The package.json files of the workspaces: no JSON text, an empty object,
\* dependencies with an empty scripts section, and dependencies with
\* scripts. Keys of a JSON object are any strings.
FullManifest ==
    [parses |-> TRUE, dependencies |-> {<<"r", "e", "a", "c", "t">>, <<"a", " ", "b">>},
     devDependencies |-> {<<"j", "e", "s", "t">>},
     scripts |-> Some([n \in {<<"s", "t", "a", "r", "t">>, <<"t", "e", "s", "t", ".", "u", "n", "i", "t">>} |-> <<"n", "o", "d", "e", " ", ".">>])]

Manifests ==
    { NoManifest,
      [parses |-> TRUE, dependencies |-> {}, devDependencies |-> {}, scripts |-> Undefined],
      [parses |-> TRUE, dependencies |-> {<<"r", "e", "a", "c", "t">>},
       devDependencies |-> {}, scripts |-> Some(<<>>)],
      FullManifest }

\* The keys a quick pick can offer: those of the manifests above and the
\* script names addScript can add.
DependencyKeys == UNION {InstalledDependencies(m) : m \in Manifests}

ScriptKeys ==
    UNION {DOMAIN ValueOf(m.scripts) : m \in {x \in Manifests : IsDefined(x.scripts)}}
        \cup TypedScriptNames

OptionalBoolean == {Undefined, Some(TRUE), Some(FALSE)}

-----------------------------------------------------------------------------
(* State machine of the commands: the workspace and the settings are any   *)
(* of the above, the user starts handlers and answers their prompts, and   *)
(* the file callbacks of addNewScript run when they are due.               *)

InitCommands ==
    /\ workspaceFolder \in BOOLEAN
    /\ files \in {{}, {"package.json"}, {"package.json", "yarn.lock"}}
    /\ ~workspaceFolder => files = {}
    /\ "yarn.lock" \in files => manifest = FullManifest
    /\ packageManager = Undefined
    /\ showTerminal \in OptionalBoolean
    /\ confirmActions \in OptionalBoolean
    /\ manifest \in Manifests
    /\ "package.json" \notin files => manifest = NoManifest
    /\ op = "none"
    /\ argPackage = Undefined
    /\ argVersion = Undefined
    /\ argDev = FALSE
    /\ detected = "npm"
    /\ probed = <<>>
    /\ configRead = FALSE
    /\ command = <<>>
    /\ input = <<>>
    /\ verdict = FALSE
    /\ found = FALSE
    /\ path = Undefined
    /\ message = Undefined
    /\ logged = <<>>
    /\ clientName = Client_constructor(Undefined)
    /\ terminals = <<>>
    /\ scriptTerminal = 0
    /\ handler = "none"
    /\ pc = "done"
    /\ local = NoLocal
    /\ sent = <<>>
    /\ notices = <<>>
    /\ results = <<>>
    /\ tasks = <<>>
    /\ completed = Undefined

\* A step leaves the run r behind.
Apply(r) ==
    /\ handler' = r.handler
    /\ pc' = r.pc
    /\ local' = r.local
    /\ sent' = r.sent
    /\ notices' = r.notices
    /\ results' = r.results
    /\ terminals' = r.terminals
    /\ scriptTerminal' = r.scriptTerminal
    /\ UNCHANGED clientName
    /\ manifest' = r.manifest
    /\ tasks' = r.tasks
    /\ completed' = r.completed
    /\ UNCHANGED <<envVars, settingVars, recordVars>>

\* The user runs a command of the extension; the previous handler has
\* returned. While a file callback of addNewScript is due, the only command
\* the user is followed in starting is addScript.
StartHandler(h, throws) ==
    /\ pc = "done"
    /\ tasks # <<>> => h = "addScript"
    /\ throws => h \in {"installDependencies", "auditDependencies"}
    /\ Apply(begin([Run EXCEPT !.sent = <<>>, !.notices = <<>>, !.results = <<>>],
                   h, FALSE, throws))

\* QuickPickManager.showMainMenu() answers; <<>>: the menu is dismissed.
ChooseMainAction(mainAction) ==
    /\ handler = "openMainMenu"
    /\ pc = "showMainMenu"
    /\ Apply(CASE mainAction = Undefined -> [Run EXCEPT !.pc = "done"]
               [] mainAction = Some("dependencies") ->
                    [Run EXCEPT !.pc = "showDependencyActions", !.local.viaMenu = TRUE]
               [] mainAction = Some("scripts") ->
                    [Run EXCEPT !.pc = "showScriptActions", !.local.viaMenu = TRUE])

\* handleDependencyManagement: QuickPickManager.showDependencyActions()
\* answers, and the chosen handler runs.
DependencyActions ==
    [install |-> "installDependencies", add |-> "addDependency",
     addDev |-> "addDevDependency", remove |-> "removeDependency",
     update |-> "updateDependency", audit |-> "auditDependencies"]

ChooseDependencyAction(action, throws) ==
    /\ handler = "openMainMenu"
    /\ pc = "showDependencyActions"
    /\ throws => action \in {Some("install"), Some("audit")}
    /\ Apply(IF action = Undefined
             THEN return(Run)
             ELSE begin(Run, DependencyActions[ValueOf(action)], TRUE, throws))

\* handleScriptManagement: QuickPickManager.showScriptActions() answers.
ChooseScriptAction(action) ==
    /\ handler = "openMainMenu"
    /\ pc = "showScriptActions"
    /\ Apply(CASE action = Undefined -> return(Run)
               [] action = Some("run") -> showAvailableScripts(Run)
               [] action = Some("add") -> begin(Run, "addScript", TRUE, FALSE))

\* addDependency, addDevDependency: the input box answers; it accepts only
\* what validatePackageNameWithVersionInput lets through.
EnterDependency(userInput, throws) ==
    /\ handler \in {"addDependency", "addDevDependency"}
    /\ pc = "getValidatedInput"
    /\ IsDefined(userInput) =>
          validatePackageNameWithVersionInput(ValueOf(userInput)).message = Undefined
    /\ throws => Truthy(userInput)
    /\ LET r == [Run EXCEPT !.local.userInput = userInput]
       IN Apply(IF Truthy(userInput)
                THEN runClient(r, IF handler = "addDependency" THEN "add"
                                  ELSE "addDevDependencies",
                               userInput, throws)
                ELSE return(r))

\* removeDependency, updateDependency: the quick pick of
\* showInstalledDependencies answers with a key of the manifest, or is
\* dismissed. removeDependency goes on to showConfirmation.
PickDependency(selected, throws) ==
    /\ handler \in {"removeDependency", "updateDependency"}
    /\ pc = "showInstalledDependencies"
    /\ IsDefined(selected) => ValueOf(selected) \in InstalledDependencies(manifest)
    /\ throws => handler = "removeDependency" /\ Truthy(selected)
                    /\ ~configGet(confirmActions, TRUE)
    /\ LET r == [Run EXCEPT !.local.package = selected]
       IN Apply(IF ~Truthy(selected)
                THEN return(r)
                ELSE IF handler = "updateDependency"
                THEN [r EXCEPT !.pc = "versionChoice"]
                ELSE IF ~ValueOf(readConfirmActions(r).local.confirmActions)
                THEN runClient(readConfirmActions(r), "remove", selected, throws)
                ELSE [readConfirmActions(r) EXCEPT !.pc = "showWarningMessage",
                                                   !.local.dialog = selected])

\* The confirmation dialog of removeDependency answers: a button, or <<>>
\* when it is dismissed.
AnswerConfirmation(answer, throws) ==
    /\ handler = "removeDependency"
    /\ pc = "showWarningMessage"
    /\ throws => confirmed(answer, "Remove")
    /\ LET r == [Run EXCEPT !.local.answer = answer]
       IN Apply(IF confirmed(answer, "Remove")
                THEN runClient(r, "remove", local.package, throws)
                ELSE return(r))

\* updateDependency: the version quick pick answers.
ChooseVersion(versionChoice, throws) ==
    /\ handler = "updateDependency"
    /\ pc = "versionChoice"
    /\ throws => versionChoice = Some("latest")
    /\ LET r == [Run EXCEPT !.local.versionChoice = versionChoice]
       IN Apply(CASE versionChoice = Undefined -> return(r)
                  [] versionChoice = Some("custom") -> [r EXCEPT !.pc = "versionInput"]
                  [] versionChoice = Some("latest") ->
                       runClient(r, "update", local.package, throws))

\* The version input box, a dismissal of which updates to the latest version.
EnterVersion_dismissedIsLatest(targetVersion, throws) ==
    /\ handler = "updateDependency"
    /\ pc = "versionInput"
    /\ IsDefined(targetVersion) => validateVersionInput(ValueOf(targetVersion)) = Undefined
    /\ throws => Truthy(targetVersion)
    /\ LET r == [Run EXCEPT !.local.targetVersion = targetVersion]
       IN Apply(runClient(r, "update", local.package, throws))

\* updateDependency: the version input box answers; Client.update takes
\* the package alone.
EnterVersion(targetVersion, throws) ==
    /\ handler = "updateDependency"
    /\ pc = "versionInput"
    /\ IsDefined(targetVersion) => validateVersionInput(ValueOf(targetVersion)) = Undefined
    /\ throws => Truthy(targetVersion)
    /\ LET r == [Run EXCEPT !.local.targetVersion = targetVersion]
       IN Apply(IF ~Truthy(targetVersion)
                THEN return(r)
                ELSE runClient(r, "update", local.package, throws))

\* addScript: the script name input box answers.
EnterScriptName(scriptName) ==
    /\ handler = "addScript"
    /\ pc = "scriptName"
    /\ IsDefined(scriptName) => validateScriptNameInput(ValueOf(scriptName)).message = Undefined
    /\ LET r == [Run EXCEPT !.local.scriptName = scriptName]
       IN Apply(IF Truthy(scriptName)
                THEN [r EXCEPT !.pc = "scriptCommand"]
                ELSE return(r))

\* addScript: the script command input box answers; addNewScript is
\* called and not awaited, then the success message is shown.
EnterScriptCommand(scriptCommand) ==
    /\ handler = "addScript"
    /\ pc = "scriptCommand"
    /\ IsDefined(scriptCommand) =>
          validateScriptCommandInput(ValueOf(scriptCommand)).message = Undefined
    /\ Truthy(scriptCommand) => Len(tasks) < MaxTasks
    /\ LET r == [Run EXCEPT !.local.scriptCommand = scriptCommand]
       IN Apply(IF Truthy(scriptCommand)
                THEN return(logCommandResult(
                              show(addNewScript(r, ValueOf(local.scriptName),
                                                ValueOf(scriptCommand)),
                                   SuccessMessage("Added script: ", ValueOf(local.scriptName))),
                              "addScript", TRUE))
                ELSE return(r))

\* The quick pick of scripts answers with a key of the scripts section (of
\* showAvailableScripts under openMainMenu, of extractAndDisplayScripts
\* under useScripts), and runScript runs it.
PickScript(selected, throws, ok) ==
    /\ \/ handler = "openMainMenu" /\ pc = "showAvailableScripts"
       \/ handler = "useScripts" /\ pc = "createQuickPick"
    /\ IsDefined(selected) => ValueOf(selected) \in DOMAIN ValueOf(manifest.scripts)
    /\ throws => Truthy(selected) /\ configGet(showTerminal, TRUE)
    /\ ~ok => Truthy(selected) /\ ~configGet(showTerminal, TRUE)
    /\ Apply(IF Truthy(selected)
             THEN return(runScript(Run, ValueOf(selected), throws, ok))
             ELSE return(Run))

\* A readFile or writeFile callback of a pending addNewScript call runs.
ReadFileCallback(i, err) ==
    /\ i \in DOMAIN tasks
    /\ tasks[i].waitsFor = "readFile"
    /\ Apply(readFileCallback(Run, i, err))

WriteFileCallback(i, err) ==
    /\ i \in DOMAIN tasks
    /\ tasks[i].waitsFor = "writeFile"
    /\ Apply(writeFileCallback(Run, i, err))

NextCommands ==
    \/ \E h \in Handlers, throws \in BOOLEAN : StartHandler(h, throws)
    \/ \E a \in {Undefined, Some("dependencies"), Some("scripts")} : ChooseMainAction(a)
    \/ \E a \in {Undefined} \cup {Some(k) : k \in DOMAIN DependencyActions}, throws \in BOOLEAN :
          ChooseDependencyAction(a, throws)
    \/ \E a \in {Undefined, Some("run"), Some("add")} : ChooseScriptAction(a)
    \/ \E t \in {Undefined} \cup {Some(x) : x \in TypedPackages}, throws \in BOOLEAN :
          EnterDependency(t, throws)
    \/ \E s \in {Undefined} \cup {Some(x) : x \in DependencyKeys}, throws \in BOOLEAN :
          PickDependency(s, throws)
    \/ \E a \in {Undefined, Some("Remove"), Some("Cancel")}, throws \in BOOLEAN :
          AnswerConfirmation(a, throws)
    \/ \E c \in {Undefined, Some("latest"), Some("custom")}, throws \in BOOLEAN :
          ChooseVersion(c, throws)
    \/ \E v \in {Undefined} \cup {Some(x) : x \in TypedVersions}, throws \in BOOLEAN :
          EnterVersion(v, throws)
    \/ \E n \in {Undefined} \cup {Some(x) : x \in TypedScriptNames} : EnterScriptName(n)
    \/ \E c \in {Undefined} \cup {Some(x) : x \in TypedScriptCommands} : EnterScriptCommand(c)
    \/ \E s \in {Undefined} \cup {Some(x) : x \in ScriptKeys},
          throws \in BOOLEAN, ok \in BOOLEAN :
          PickScript(s, throws, ok)
    \/ \E i \in 1..MaxTasks, err \in BOOLEAN : ReadFileCallback(i, err)
    \/ \E i \in 1..MaxTasks, err \in BOOLEAN : WriteFileCallback(i, err)

SpecCommands == InitCommands /\ [][NextCommands]_vars

-----------------------------------------------------------------------------
(* State machine of a Client and the script terminal: lock files come and  *)
(* go, the operations of the Client are called one after the other, the    *)
(* user ends terminals, and close() is called.                             *)

\* How many commands the Client is followed in sending.
MaxSent == 2

ClientOperations == {"install", "add", "addDevDependencies", "remove", "update", "audit"}

\* The lock files that come and go.
ClientLockFiles == {"yarn.lock", "pnpm-lock.yaml"}

\* The argument of a Client operation: install and audit take none.
ClientArguments(operation) ==
    IF operation \in {"install", "audit"}
    THEN {Undefined}
    ELSE {Some(<<"r", "e", "a", "c", "t">>)}

\* The Client is constructed in an open workspace, with a name or without.
InitClient ==
    /\ workspaceFolder = TRUE
    /\ files \in SUBSET ClientLockFiles
    /\ packageManager = Undefined
    /\ op = "none"
    /\ argPackage = Undefined
    /\ argVersion = Undefined
    /\ argDev = FALSE
    /\ detected = "npm"
    /\ probed = <<>>
    /\ configRead = FALSE
    /\ command = <<>>
    /\ input = <<>>
    /\ verdict = FALSE
    /\ found = FALSE
    /\ path = Undefined
    /\ message = Undefined
    /\ logged = <<>>
    /\ showTerminal = Undefined
    /\ confirmActions = Undefined
    /\ manifest = NoManifest
    /\ clientName \in {Client_constructor(arg) : arg \in {Undefined} \cup {Some(n) : n \in PackageManagerName}}
    /\ terminals = <<>>
    /\ scriptTerminal = 0
    /\ handler = "none"
    /\ pc = "done"
    /\ local = NoLocal
    /\ sent = <<>>
    /\ notices = <<>>
    /\ results = <<>>
    /\ tasks = <<>>
    /\ completed = Undefined

\* A Client operation runs to its end: it builds its command and sends it
\* to the script terminal.
ClientOperation(operation, packageNames) ==
    /\ Len(sent) < MaxSent
    /\ packageNames \in ClientArguments(operation)
    /\ LET r == clientOperation(Run, operation, packageNames, FALSE)
       IN /\ sent' = r.sent
          /\ terminals' = r.terminals
          /\ scriptTerminal' = r.scriptTerminal
    /\ op' = operation
    /\ argPackage' = packageNames
    /\ argVersion' = Undefined
    /\ argDev' = (operation = "addDevDependencies")
    /\ RunDetect
    /\ command' = ClientCommand(operation, packageNames)
    /\ found' = FALSE
    /\ path' = Undefined
    /\ UNCHANGED <<envVars, validatorVars, settingVars, handlerVars, notices, results,
                   scriptVars, clientName>>

\* The user ends a terminal, or its shell exits: the terminal has an exit
\* status from then on.
TerminalExit(i) ==
    /\ i \in DOMAIN terminals
    /\ terminals[i] = "live"
    /\ terminals' = [terminals EXCEPT ![i] = "exited"]
    /\ NoCall
    /\ UNCHANGED <<envVars, validatorVars, settingVars, handlerVars, outputVars,
                   scriptVars, clientName, scriptTerminal>>

\* close() of a Terminal instance is called.
Close ==
    /\ terminals' = close(Run).terminals
    /\ scriptTerminal' = close(Run).scriptTerminal
    /\ op' = "close"
    /\ argPackage' = Undefined
    /\ argVersion' = Undefined
    /\ argDev' = FALSE
    /\ command' = <<>>
    /\ found' = FALSE
    /\ path' = Undefined
    /\ UNCHANGED <<envVars, detectVars, validatorVars, settingVars, handlerVars,
                   outputVars, scriptVars, clientName>>

NextClient ==
    \/ \E f \in ClientLockFiles : CreateFile(f)
    \/ \E f \in ClientLockFiles : DeleteFile(f)
    \/ \E o \in ClientOperations, p \in {Undefined, Some(<<"r", "e", "a", "c", "t">>)} :
          ClientOperation(o, p)
    \/ \E i \in 1..MaxSent : TerminalExit(i)
    \/ Close

SpecClient == InitClient /\ [][NextClient]_vars

-----------------------------------------------------------------------------
(* Properties of PackageManagerDetector                                    *)

\* The priority order of the lock files and the manager each stands for.
PriorityManager(fs) ==
    IF "pnpm-lock.yaml" \in fs THEN "pnpm"
    ELSE IF "yarn.lock" \in fs THEN "yarn"
    ELSE IF "bun.lockb" \in fs THEN "bun"
    ELSE "npm"

HasLockFile == files \cap {"pnpm-lock.yaml", "yarn.lock", "bun.lockb", "package-lock.json"} # {}

\* C1: for every non-empty set of lock files in the root of an open
\* workspace, detect returns the manager of the first existing file in the
\* order pnpm-lock.yaml, yarn.lock, bun.lockb, package-lock.json.
C1_DetectPriority ==
    (op = "detect" /\ workspaceFolder /\ HasLockFile) => detected = PriorityManager(files)

\* pnpm-lock.yaml, yarn.lock and package-lock.json coexist and detect returned pnpm.
C1_Witness ==
    /\ op = "detect"
    /\ workspaceFolder
    /\ files = {"pnpm-lock.yaml", "yarn.lock", "package-lock.json"}
    /\ detected = "pnpm"

\* The add form and the dev flag of each manager.
AddForm(m) ==
    CASE m = "npm" -> txt.npm_install_
      [] m = "yarn" -> txt.yarn_add_
      [] m = "pnpm" -> txt.pnpm_add_
      [] m = "bun" -> txt.bun_add_

DevFlag(m) == IF m \in {"npm", "pnpm"} THEN txt.save_dev ELSE txt.dev

InstallAll(m) ==
    CASE m = "npm" -> txt.npm_install
      [] m = "yarn" -> txt.yarn_install
      [] m = "pnpm" -> txt.pnpm_install
      [] m = "bun" -> txt.bun_install

\* C2: under each manager, getInstallCommand(p, isDev) with a non-empty p is
\* the manager's add form followed by p verbatim, followed by the manager's
\* dev flag exactly when isDev; without a package name it is `<manager> install`.
C2_InstallCommand ==
    (op = "getInstallCommand" /\ detected \in PackageManagerName) =>
        /\ Truthy(argPackage) =>
             command = AddForm(detected) \o ValueOf(argPackage)
                         \o (IF argDev THEN DevFlag(detected) ELSE <<>>)
        /\ ~IsDefined(argPackage) => command = InstallAll(detected)

\* yarn add typescript --dev
C2_Witness ==
    /\ op = "getInstallCommand"
    /\ detected = "yarn"
    /\ argDev
    /\ argPackage = Some(<<"t", "y", "p", "e", "s", "c", "r", "i", "p", "t">>)
    /\ command = txt.yarn_add_ \o <<"t", "y", "p", "e", "s", "c", "r", "i", "p", "t">> \o txt.dev

\* The first word of a command line and what follows its first blank.
FirstWord(c) ==
    IF \E i \in DOMAIN c : c[i] = " "
    THEN SubSeq(c, 1, (CHOOSE i \in DOMAIN c : c[i] = " " /\ \A j \in 1..(i - 1) : c[j] # " ") - 1)
    ELSE c

AfterFirstWord(c) == SubSeq(c, Len(FirstWord(c)) + 2, Len(c))

\* C3: under each manager, getUpdateCommand(p, v) is the manager's add form
\* followed by p@v, with latest for v when no version is given; the command
\* always ends in @ and a non-empty version, and its subcommand is never
\* update or upgrade.
C3_UpdateCommand ==
    (op = "getUpdateCommand" /\ detected \in PackageManagerName) =>
        /\ Truthy(argVersion) =>
             command = AddForm(detected) \o ValueOf(argPackage) \o <<"@">> \o ValueOf(argVersion)
        /\ ~IsDefined(argVersion) =>
             command = AddForm(detected) \o ValueOf(argPackage) \o txt.at_latest
        /\ \E v \in (VersionTokens \cup {<<"l", "a", "t", "e", "s", "t">>}) \ {<<>>} :
             command = AddForm(detected) \o ValueOf(argPackage) \o <<"@">> \o v
        /\ FirstWord(AfterFirstWord(command)) \notin
             {<<"u", "p", "d", "a", "t", "e">>, <<"u", "p", "g", "r", "a", "d", "e">>}

\* yarn add react@latest, for a call without version
C3_Witness ==
    /\ op = "getUpdateCommand"
    /\ detected = "yarn"
    /\ argVersion = Undefined
    /\ argPackage = Some(<<"r", "e", "a", "c", "t">>)
    /\ command = txt.yarn_add_ \o <<"r", "e", "a", "c", "t">> \o txt.at_latest

\* C4 as stated: getRunCommand(s) is `npm run s`, `pnpm run s`, `yarn s`,
\* `bun run s` under npm, pnpm, yarn and bun.
C4_RunCommand_Original ==
    (op = "getRunCommand" /\ detected \in PackageManagerName) =>
        command = (CASE detected = "npm" -> txt.npm_run_
                     [] detected = "pnpm" -> txt_pnpm_run_
                     [] detected = "yarn" -> txt.yarn_
                     [] detected = "bun" -> txt.bun_run_) \o ValueOf(argPackage)

\* C4, amended: getRunCommand(s) is `npm run s` under npm, `bun run s` under
\* bun, and `yarn s` and `pnpm s`, both without the run keyword, under yarn
\* and pnpm.
C4_RunCommand ==
    (op = "getRunCommand" /\ detected \in PackageManagerName) =>
        command = (CASE detected = "npm" -> txt.npm_run_
                     [] detected = "pnpm" -> txt.pnpm_
                     [] detected = "yarn" -> txt.yarn_
                     [] detected = "bun" -> txt.bun_run_) \o ValueOf(argPackage)

\* pnpm start
C4_Witness ==
    /\ op = "getRunCommand"
    /\ detected = "pnpm"
    /\ argPackage = Some(<<"s", "t", "a", "r", "t">>)
    /\ command = txt.pnpm_ \o <<"s", "t", "a", "r", "t">>

\* C5: getRemoveCommand(p) is `npm uninstall p`, `yarn remove p`,
\* `pnpm remove p`, `bun remove p`, with p as the final token.
C5_RemoveCommand ==
    (op = "getRemoveCommand" /\ detected \in PackageManagerName) =>
        command = (CASE detected = "npm" -> txt.npm_uninstall_
                     [] detected = "yarn" -> txt.yarn_remove_
                     [] detected = "pnpm" -> txt.pnpm_remove_
                     [] detected = "bun" -> txt.bun_remove_) \o ValueOf(argPackage)

\* npm uninstall react
C5_Witness ==
    /\ op = "getRemoveCommand"
    /\ detected = "npm"
    /\ workspaceFolder
    /\ "package-lock.json" \in files
    /\ command = txt.npm_uninstall_ \o <<"r", "e", "a", "c", "t">>

\* C6: getAuditCommand is exactly `<manager> audit`.
C6_AuditCommand ==
    (op = "getAuditCommand" /\ detected \in PackageManagerName) =>
        command = (CASE detected = "npm" -> txt.npm_audit
                     [] detected = "yarn" -> txt.yarn_audit
                     [] detected = "pnpm" -> txt.pnpm_audit
                     [] detected = "bun" -> txt.bun_audit)

\* bun audit
C6_Witness ==
    /\ op = "getAuditCommand"
    /\ detected = "bun"
    /\ command = txt.bun_audit

\* C7: without a workspace folder detect returns npm and reads neither the
\* filesystem nor the configuration; with a workspace and no lock file it
\* returns the packageManager setting, npm when the setting is not set.
C7_DetectDefault ==
    (op = "detect") =>
        /\ ~workspaceFolder => (detected = "npm" /\ probed = <<>> /\ ~configRead)
        /\ (workspaceFolder /\ ~HasLockFile) =>
             /\ configRead
             /\ IsDefined(packageManager) => detected = ValueOf(packageManager)
             /\ ~IsDefined(packageManager) => detected = "npm"

\* No workspace, yet a lock file on disk and a setting: detect returned npm
\* untouched by either.
C7_WitnessNoWorkspace ==
    /\ op = "detect"
    /\ ~workspaceFolder
    /\ "yarn.lock" \in files
    /\ packageManager = Some("pnpm")
    /\ detected = "npm"


-----------------------------------------------------------------------------
(* Properties of ValidationUtils                                           *)

\* t is one character of a-z, 0-9, - or ~ followed by characters of a-z,
\* 0-9, -, ., _ or ~.
NameShape(t) ==
    /\ t # <<>>
    /\ t[1] \in Lower \cup Digit \cup {"-", "~"}
    /\ \A i \in 2..Len(t) : t[i] \in Lower \cup Digit \cup {"-", ".", "_", "~"}

\* t is a bare name, or @scope/name.
ScopedNameShape(t) ==
    \/ NameShape(t)
    \/ \E k \in 2..Len(t) :
          /\ t[1] = "@"
          /\ t[k] = "/"
          /\ NameShape(SubSeq(t, 2, k - 1))
          /\ NameShape(SubSeq(t, k + 1, Len(t)))

Blank(t) == \A i \in DOMAIN t : t[i] \in WhiteSpace

LowerCased(t) ==
    [i \in DOMAIN t |->
       IF \E k \in 1..26 : UpperLetters[k] = t[i]
       THEN LowerLetters[CHOOSE k \in 1..26 : UpperLetters[k] = t[i]]
       ELSE t[i]]

\* C8: validatePackageName(name) is true exactly when name is not blank, is
\* at most 214 characters long and its lower-cased copy is a bare name or
\* @scope/name; the examples of the tests are accepted and rejected as listed.
C8_PackageName ==
    (op = "validatePackageName") =>
        /\ verdict <=> (/\ ~Blank(input)
                        /\ Len(input) <= 214
                        /\ ScopedNameShape(LowerCased(input)))
        /\ input \in { <<"@", "a", "n", "g", "u", "l", "a", "r", "/", "c", "o", "r", "e">>,
          <<"m", "y", "-", "p", "a", "c", "k", "a", "g", "e">>,
          <<"p", "a", "c", "k", "a", "g", "e", ".", "n", "a", "m", "e">>,
          <<"p", "a", "c", "k", "a", "g", "e", "_", "n", "a", "m", "e">> } => verdict
        /\ input \in { <<>>,
          <<" ", " ", " ">>,
          <<"p", "a", "c", "k", "a", "g", "e", " ", "w", "i", "t", "h", " ", "s", "p", "a", "c", "e", "s">>,
          <<"@">>,
          <<"@", "s", "c", "o", "p", "e", "/">>,
          <<"@", "/", "p", "a", "c", "k", "a", "g", "e">> } => ~verdict

\* A scoped name of exactly 214 characters is accepted.
C8_Witness ==
    /\ op = "validatePackageName"
    /\ Len(input) = 214
    /\ input[1] = "@"
    /\ verdict

\* The number of @ in t, and the text before the k-th @ of t.
CountAt(t) == Cardinality({i \in DOMAIN t : t[i] = "@"})

BeforeAt(t, k) ==
    SubSeq(t, 1, (CHOOSE i \in DOMAIN t : t[i] = "@" /\ CountAt(SubSeq(t, 1, i)) = k) - 1)

AfterLastAt(t) ==
    SubSeq(t, (CHOOSE i \in DOMAIN t : t[i] = "@" /\ \A j \in (i + 1)..Len(t) : t[j] # "@") + 1, Len(t))

\* t splits on @ into an allowed number of parts (2 or 3 when it starts with
\* @, else 1 or 2) and its name portion passes validatePackageName.
SplitsWithValidName(t) ==
    IF t # <<>> /\ t[1] = "@"
    THEN \/ CountAt(t) = 1 /\ validatePackageName(t)
         \/ CountAt(t) = 2 /\ validatePackageName(BeforeAt(t, 2))
    ELSE \/ CountAt(t) = 0 /\ validatePackageName(t)
         \/ CountAt(t) = 1 /\ validatePackageName(BeforeAt(t, 1))

\* Leading and trailing white space removed.
Stripped(t) ==
    IF Blank(t) THEN <<>>
    ELSE SubSeq(t, CHOOSE i \in DOMAIN t : t[i] \notin WhiteSpace /\ \A j \in 1..(i - 1) : t[j] \in WhiteSpace,
                   CHOOSE i \in DOMAIN t : t[i] \notin WhiteSpace /\ \A j \in (i + 1)..Len(t) : t[j] \in WhiteSpace)

\* C9 as stated: an accepted input splits on @ into an allowed number of
\* parts and its name portion passes validatePackageName.
C9_WithVersionSplit_Original ==
    (op = "validatePackageNameWithVersion" /\ verdict) => SplitsWithValidName(input)

\* C9, amended: an accepted input, once its leading and trailing white space
\* is removed, splits on @ into an allowed number of parts and its name
\* portion passes validatePackageName; the examples are rejected and accepted
\* as listed.
C9_WithVersionSplit ==
    (op = "validatePackageNameWithVersion") =>
        /\ verdict => SplitsWithValidName(Stripped(input))
        /\ input \in { <<"p", "a", "c", "k", "a", "g", "e", "@">>,
          <<"p", "a", "c", "k", "a", "g", "e", "@", "@", "1", ".", "0", ".", "0">>,
          <<"@", "i", "n", "v", "a", "l", "i", "d", "@", "1", ".", "0", ".", "0">> } => ~verdict
        /\ input \in { <<"l", "o", "d", "a", "s", "h", "@", "^", "1", ".", "2", ".", "3">>,
          <<"@", "t", "y", "p", "e", "s", "/", "n", "o", "d", "e", "@", "l", "a", "t", "e", "s", "t">> } => verdict

\* @types/node@latest is accepted.
C9_Witness ==
    /\ op = "validatePackageNameWithVersion"
    /\ input = <<"@", "t", "y", "p", "e", "s", "/", "n", "o", "d", "e", "@", "l", "a", "t", "e", "s", "t">>
    /\ verdict

\* The input carries a version portion behind a valid name.
HasVersionPortion(t) ==
    IF t # <<>> /\ t[1] = "@"
    THEN CountAt(t) = 2 /\ validatePackageName(BeforeAt(t, 2))
    ELSE CountAt(t) = 1 /\ validatePackageName(BeforeAt(t, 1))

Comparators == {<<"^">>, <<"~">>, <<">", "=">>, <<"<", "=">>, <<">">>, <<"<">>}
VersionKeywords == { <<"l", "a", "t", "e", "s", "t">>,
          <<"n", "e", "x", "t">>,
          <<"b", "e", "t", "a">>,
          <<"a", "l", "p", "h", "a">> }

\* b is runs of one or more characters of the set chars, separated by ||
\* with characters of the set pad allowed around each ||.
OrRange(b, chars, pad) ==
    /\ b # <<>>
    /\ b[1] \in chars
    /\ b[Len(b)] \in chars
    /\ \A i \in DOMAIN b : b[i] \in chars \cup pad \cup {"|"}
    /\ \A i, j \in 2..(Len(b) - 1) :
         (/\ i <= j
          /\ b[i - 1] \in chars
          /\ b[j + 1] \in chars
          /\ \A k \in i..j : b[k] \notin chars)
         => \E k \in i..(j - 1) :
               /\ b[k] = "|"
               /\ b[k + 1] = "|"
               /\ \A m \in (i..j) \ {k, k + 1} : b[m] \in pad

VersionShape(v, chars, pad) ==
    \/ v \in VersionKeywords
    \/ OrRange(v, chars, pad)
    \/ \E c \in Comparators :
          /\ Len(v) > Len(c)
          /\ SubSeq(v, 1, Len(c)) = c
          /\ OrRange(SubSeq(v, Len(c) + 1, Len(v)), chars, pad)

Alphanumeric == Lower \cup Upper \cup Digit

\* C10 as stated: a version portion is accepted exactly when it is an
\* optional comparator followed by one or more alphanumeric, dot or hyphen
\* characters, optionally repeated with || separators, or is a keyword.
C10_VersionGrammar_Original ==
    (op = "validatePackageNameWithVersion" /\ HasVersionPortion(Stripped(input))) =>
        (verdict <=> VersionShape(AfterLastAt(Stripped(input)),
                                  Alphanumeric \cup {".", "-"}, {}))

\* C10, amended: a version portion is accepted exactly when it is an
\* optional comparator followed by one or more alphanumeric, underscore, dot
\* or hyphen characters, optionally repeated with || separators that may have
\* white space on either side, or is a keyword.
C10_VersionGrammar ==
    (op = "validatePackageNameWithVersion" /\ HasVersionPortion(Stripped(input))) =>
        (verdict <=> VersionShape(AfterLastAt(Stripped(input)),
                                  Alphanumeric \cup {"_", ".", "-"}, WhiteSpace))

\* The OR-range package@1.0.0 || 2.0.0 is accepted.
C10_Witness ==
    /\ op = "validatePackageNameWithVersion"
    /\ input = <<"p", "a", "c", "k", "a", "g", "e", "@", "1", ".", "0", ".", "0", " ", "|", "|", " ", "2", ".", "0", ".", "0">>
    /\ verdict

-----------------------------------------------------------------------------
(* C11: validateScriptName                                                 *)

ScriptNameAllowed == Alphanumeric \cup {":", "_", "-"}

\* C11: validateScriptName(name) returns true exactly when name is one or
\* more characters, all of them letters, digits, colons, underscores or
\* hyphens; empty, blank, space-containing and otherwise punctuated names
\* are rejected.
C11_ScriptName ==
    op = "validateScriptName" =>
        verdict = (/\ Len(input) >= 1
                   /\ \A i \in DOMAIN input : input[i] \in ScriptNameAllowed)

C11_Witness ==
    /\ op = "validateScriptName"
    /\ input = <<"b", "u", "i", "l", "d", ":", "p", "r", "o", "d">>
    /\ verdict

-----------------------------------------------------------------------------
(* C12, C13: the input-box adapters                                        *)

\* word occurs in text
Contains(text, word) ==
    \E i \in 1..(Len(text) - Len(word) + 1) :
        SubSeq(text, i, i + Len(word) - 1) = word

word_empty == <<"e", "m", "p", "t", "y">>
word_Invalid == <<"I", "n", "v", "a", "l", "i", "d">>
word_cannot_be_empty == <<" ", "c", "a", "n", "n", "o", "t", " ", "b", "e", " ", "e", "m", "p", "t", "y">>

AdapterNames == {"validatePackageNameInput", "validatePackageNameWithVersionInput",
                 "validateScriptNameInput", "validateScriptCommandInput"}

\* The predicate an adapter wraps, applied to the input of the state.
PredicateOfAdapter ==
    CASE op = "validatePackageNameInput" -> validatePackageName(input)
      [] op = "validatePackageNameWithVersionInput" -> validatePackageNameWithVersion(input)
      [] op = "validateScriptNameInput" -> validateScriptName(input)
      [] op = "validateScriptCommandInput" -> validateScriptCommand(input)

\* C12: for each of the four predicate/adapter pairs and every input, the
\* adapter returns null exactly when the predicate returns true, and
\* otherwise a message that contains the word "empty" or "Invalid".
C12_AdapterAgreesWithPredicate ==
    op \in AdapterNames =>
        /\ (message = Undefined) <=> PredicateOfAdapter
        /\ IsDefined(message) =>
              \/ Contains(ValueOf(message), word_empty)
              \/ Contains(ValueOf(message), word_Invalid)

C12_Witness ==
    /\ op = "validateScriptCommandInput"
    /\ input = <<" ", " ">>
    /\ IsDefined(message)
    /\ Contains(ValueOf(message), word_empty)

\* The field-specific message of the adapter of the state for a blank input.
OwnEmptyMessage ==
    CASE op = "validatePackageNameInput" -> <<"P", "a", "c", "k", "a", "g", "e", " ", "n", "a", "m", "e", " ", "c", "a", "n", "n", "o", "t", " ", "b", "e", " ", "e", "m", "p", "t", "y">>
      [] op = "validatePackageNameWithVersionInput" -> <<"P", "a", "c", "k", "a", "g", "e", " ", "n", "a", "m", "e", " ", "c", "a", "n", "n", "o", "t", " ", "b", "e", " ", "e", "m", "p", "t", "y">>
      [] op = "validateScriptNameInput" -> <<"S", "c", "r", "i", "p", "t", " ", "n", "a", "m", "e", " ", "c", "a", "n", "n", "o", "t", " ", "b", "e", " ", "e", "m", "p", "t", "y">>
      [] op = "validateScriptCommandInput" -> <<"S", "c", "r", "i", "p", "t", " ", "c", "o", "m", "m", "a", "n", "d", " ", "c", "a", "n", "n", "o", "t", " ", "b", "e", " ", "e", "m", "p", "t", "y">>

\* C13: every adapter checks emptiness first: a blank input gets the
\* adapter's own "... cannot be empty" message, never the "Invalid ..."
\* grammar message, and the grammar message is returned only for a
\* non-blank input that fails the grammar.
C13_EmptinessFirst ==
    op \in AdapterNames =>
        /\ Blank(input) => message = Some(OwnEmptyMessage)
        /\ (IsDefined(message) /\ Contains(ValueOf(message), word_Invalid)) =>
              ~Blank(input) /\ ~PredicateOfAdapter
        /\ (IsDefined(message) /\ Contains(ValueOf(message), word_cannot_be_empty)) =>
              Blank(input)

C13_Witness ==
    /\ op = "validatePackageNameInput"
    /\ input = <<" ">>
    /\ message = Some(<<"P", "a", "c", "k", "a", "g", "e", " ", "n", "a", "m", "e", " ", "c", "a", "n", "n", "o", "t", " ", "b", "e", " ", "e", "m", "p", "t", "y">>)

-----------------------------------------------------------------------------
(* C16: hasPackageJson and getPackageJsonPath                              *)

txt_ws_package_json ==
    <<"/", "w", "s", "/", "p", "a", "c", "k", "a", "g", "e", ".", "j", "s", "o", "n">>

\* C16: hasPackageJson returns true exactly when a workspace folder is open
\* and package.json exists in its root; for the same workspace,
\* getPackageJsonPath returns the joined <root>/package.json path exactly
\* when hasPackageJson is true, and null otherwise (also without a
\* workspace).
C16_PackageJsonHelpers ==
    /\ op = "hasPackageJson" =>
          found = (workspaceFolder /\ "package.json" \in files)
    /\ op = "getPackageJsonPath" =>
          /\ IsDefined(path) <=> hasPackageJson
          /\ IsDefined(path) => ValueOf(path) = txt_ws_package_json
          /\ ~workspaceFolder => path = Undefined

C16_Witness ==
    /\ op = "getPackageJsonPath"
    /\ workspaceFolder
    /\ "package.json" \in files
    /\ path = Some(txt_ws_package_json)

-----------------------------------------------------------------------------
(* C15: totality of command synthesis and closedness of the manager set    *)

BuilderNames == {"getInstallCommand", "getRemoveCommand", "getUpdateCommand",
                 "getAuditCommand", "getRunCommand"}

\* The four manager names as command words.
ManagerWords ==
    { <<"n", "p", "m">>,
      <<"y", "a", "r", "n">>,
      <<"p", "n", "p", "m">>,
      <<"b", "u", "n">> }

\* C15: for every value detect can yield (the four lock-file managers, the
\* no-workspace default, and whatever the packageManager setting holds)
\* every command builder returns a command beginning with npm, yarn, pnpm
\* or bun, and the manager set is closed: detect never yields a manager
\* outside the four.
C15_ClosedManagerSet ==
    /\ op \in BuilderNames => FirstWord(command) \in ManagerWords
    /\ op \in BuilderNames \cup {"detect"} => detected \in PackageManagerName

-----------------------------------------------------------------------------
(* C14, C17, C18, C19, C20: the commands                                   *)

\* The Validator predicate that corresponds to the identifier an operation
\* interpolates into its command.
AcceptedIdentifier(s) ==
    CASE s.by \in {"add", "addDevDependencies"} ->
           validatePackageNameWithVersion(ValueOf(s.ident))
      [] s.by \in {"remove", "update"} -> validatePackageName(ValueOf(s.ident))
      [] s.by = "runScript" -> validateScriptName(ValueOf(s.ident))

\* C14: every package or script identifier in a command handed to the
\* terminal or the background runner, and every script name handed to
\* addNewScript, has been accepted by the corresponding Validator
\* predicate, whether it was typed or picked from the manifest.
C14_IdentifiersValidated ==
    /\ \A i \in DOMAIN sent : IsDefined(sent[i].ident) => AcceptedIdentifier(sent[i])
    /\ \A i \in DOMAIN tasks : validateScriptName(tasks[i].scriptName)

\* C17: the showTerminal setting decides where every command runs: in the
\* background when it is false, in the visible terminal when it is true
\* (its default).
C17_ShowTerminalDecides ==
    \A i \in DOMAIN sent :
        sent[i].via = IF configGet(showTerminal, TRUE) THEN "terminal" ELSE "background"

\* C18: with confirmActions true (the default), removeDependency sends a
\* remove command only after the Remove button of the dialog for that
\* package was chosen, and Cancel or dismissal sends nothing; with
\* confirmActions false no dialog is shown and the removal goes ahead as
\* confirmed.
C18_RemoveConfirmed ==
    handler = "removeDependency" =>
        /\ \A i \in DOMAIN sent : sent[i].by = "remove" /\ sent[i].ident = local.package
        /\ configGet(confirmActions, TRUE) =>
              /\ sent # <<>> => local.answer = Some("Remove") /\ local.dialog = local.package
              /\ (pc = "done" /\ local.answer # Some("Remove")) => sent = <<>>
        /\ ~configGet(confirmActions, TRUE) =>
              /\ local.dialog = Undefined
              /\ pc # "showWarningMessage"
              /\ (pc = "done" /\ Truthy(local.package)) =>
                    /\ local.confirmActions = Some(FALSE)
                    /\ results # <<>>
                    /\ results[1].success => Len(sent) = 1

C18_Witness ==
    /\ handler = "removeDependency"
    /\ confirmActions = Undefined
    /\ local.dialog = Some(<<"r", "e", "a", "c", "t">>)
    /\ local.answer = Some("Remove")
    /\ Len(sent) = 1
    /\ sent[1].by = "remove"

\* C19: addScript shows its "Added script: <name>" success message only
\* after addNewScript has written the script into package.json.
C19_SuccessAfterWrite ==
    \A j \in DOMAIN notices :
        (handler = "addScript" /\ notices[j].kind = "success"
            /\ notices[j].text = "Added script: ") =>
            /\ IsDefined(manifest.scripts)
            /\ notices[j].arg \in DOMAIN ValueOf(manifest.scripts)
            /\ ValueOf(manifest.scripts)[notices[j].arg] = ValueOf(local.scriptCommand)

\* C20: when an addNewScript(name, command) call has finished on a
\* package.json that exists and parses, and no file operation failed,
\* scripts[name] is command, whether or not there was a scripts section.
C20_ScriptAdded ==
    (IsDefined(completed)
        /\ ValueOf(completed).outcome \notin {"noFile", "readError", "parseError", "writeError"}) =>
        /\ IsDefined(manifest.scripts)
        /\ ValueOf(completed).scriptName \in DOMAIN ValueOf(manifest.scripts)
        /\ ValueOf(manifest.scripts)[ValueOf(completed).scriptName]
              = ValueOf(completed).scriptCommand

-----------------------------------------------------------------------------
(* C21: the version entered in updateDependency                            *)

\* C21: when the user chose "Specify version" and entered an accepted
\* version v, the command sent is the manager's add form with <package>@v;
\* <package>@latest is sent only after "Update to latest version".
C21_UpdateToEnteredVersion ==
    (handler = "updateDependency" /\ sent # <<>>) =>
        /\ local.versionChoice = Some("custom") =>
              sent[1].command = AddForm(PriorityManager(files)) \o ValueOf(local.package)
                                   \o <<"@">> \o ValueOf(local.targetVersion)
        /\ sent[1].command = AddForm(PriorityManager(files)) \o ValueOf(local.package)
                                \o txt.at_latest =>
              local.versionChoice = Some("latest")

-----------------------------------------------------------------------------
(* C22, C24, C25: the validators                                           *)

ShellOperators == {"|", "<", ">"}

\* The number of white space characters of a text.
CountWhiteSpace(t) == Cardinality({i \in DOMAIN t : t[i] \in WhiteSpace})

\* C22: every string s accepted by validatePackageNameWithVersionInput is
\* one shell token: it holds no white space and none of |, < and >, so
\* getInstallCommand(s, isDev) is the add form, s, and the dev flag when
\* isDev, separated by single spaces.
C22_OneShellToken ==
    (op = "validatePackageNameWithVersionInput" /\ message = Undefined) =>
        /\ \A i \in DOMAIN input : input[i] \notin WhiteSpace \cup ShellOperators
        /\ \A d \in BOOLEAN :
              CountWhiteSpace(getInstallCommand(Some(input), d)) = IF d THEN 3 ELSE 2

\* t, without the white space around it, carries no @<version> qualifier:
\* it has no @, or a single leading @.
NoQualifier(t) ==
    LET s == Stripped(t)
    IN \/ CountAt(s) = 0
       \/ CountAt(s) = 1 /\ s[1] = "@"

C25_LoggedOnce ==
    op \in AdapterNames =>
        /\ Len(logged) = 1
        /\ logged[1].input = input
        /\ logged[1].isValid = (message = Undefined)

\* ---------------------------------------------------------------------
\* C23: concurrent addNewScript calls.
\* ---------------------------------------------------------------------

\* The names of the scripts package.json holds.
ScriptNamesOf(m) == IF IsDefined(m.scripts) THEN DOMAIN ValueOf(m.scripts) ELSE {}

\* C23: when two addNewScript calls with different script names overlap,
\* both scripts are in package.json once both have finished.  As a step
\* property: the write that finishes a call keeps every script package.json
\* held before it, the one written by the call that finished first included.
C23_BothScriptsPresent ==
    [][(/\ Len(tasks') < Len(tasks)
        /\ IsDefined(completed')
        /\ ValueOf(completed').outcome = "written")
          => ScriptNamesOf(manifest) \subseteq ScriptNamesOf(manifest')]_vars

\* ---------------------------------------------------------------------
\* C26: nothing is cached between two operations of a Client.
\* ---------------------------------------------------------------------

\* The name of a manager as it stands at the head of a command.
ManagerWord(m) ==
    CASE m = "npm" -> <<"n", "p", "m">>
      [] m = "yarn" -> <<"y", "a", "r", "n">>
      [] m = "pnpm" -> <<"p", "n", "p", "m">>
      [] m = "bun" -> <<"b", "u", "n">>

\* C26: no detection result is cached: whatever name the Client was
\* constructed with and whatever its earlier operations sent, the command
\* an operation of the Client sends is the command of the manager that the
\* lock files present at the time of that call stand for.
C26_DetectedAtCallTime ==
    op \in ClientOperations =>
        /\ sent # <<>>
        /\ sent[Len(sent)].command = command
        /\ FirstWord(command) = ManagerWord(PriorityManager(files))

\* Two operations of a Client constructed as bun: the first sent a yarn
\* command, pnpm-lock.yaml appeared, the second sent a pnpm command.
C26_Witness ==
    /\ op \in ClientOperations
    /\ clientName = "bun"
    /\ Len(sent) = 2
    /\ FirstWord(sent[1].command) = ManagerWord("yarn")
    /\ FirstWord(sent[2].command) = ManagerWord("pnpm")
    /\ files = {"yarn.lock", "pnpm-lock.yaml"}

\* ---------------------------------------------------------------------
\* C27: the script terminal.
\* ---------------------------------------------------------------------

\* The stored terminal is there and has no exit status.
StoredIsLive == scriptTerminal # 0 /\ terminals[scriptTerminal] = "live"

\* C27: after any sequence of executions, close() calls and exits of
\* terminals, at most one terminal is held: every terminal of the extension
\* other than the stored one has exited or was disposed of.  An execution
\* makes a new terminal and stores it exactly when none is stored or the
\* stored one has an exit status (so also right after close()), and returns
\* the stored one otherwise; the command text goes to the terminal so
\* fetched, which has no exit status; close() disposes of the stored
\* terminal and clears the field.
C27_OneScriptTerminal ==
    [][/\ scriptTerminal' \in 0..Len(terminals')
       /\ \A i \in DOMAIN terminals' : terminals'[i] = "live" => i = scriptTerminal'
       /\ Len(sent') > Len(sent) =>
            /\ IF StoredIsLive
               THEN terminals' = terminals /\ scriptTerminal' = scriptTerminal
               ELSE /\ terminals' = Append(terminals, "live")
                    /\ scriptTerminal' = Len(terminals) + 1
            /\ sent'[Len(sent')].terminal = scriptTerminal'
            /\ terminals'[scriptTerminal'] = "live"
       /\ op' = "close" =>
            /\ scriptTerminal' = 0
            /\ \A i \in DOMAIN terminals' : terminals'[i] # "live"
            /\ Len(terminals') = Len(terminals)]_vars

\* The first command went to a terminal the user then ended; the second
\* went to the new terminal, which is the stored one.
C27_Witness ==
    /\ op \in ClientOperations
    /\ terminals = <<"exited", "live">>
    /\ scriptTerminal = 2
    /\ Len(sent) = 2
    /\ sent[1].terminal = 1
    /\ sent[2].terminal = 2

\* ---------------------------------------------------------------------
\* C28, C29, C30: what the handlers leave behind.
\* ---------------------------------------------------------------------

\* The notices shown since the handler started, of one kind.
NoticesOfKind(kind) == {j \in DOMAIN notices : notices[j].kind = kind}

\* C28: a handler started in a workspace without package.json shows
\* 'No package.json found in workspace' and nothing else, sends no command
\* to the terminal or the background runner, starts no write of
\* package.json, and shows no success message.
C28_NoPackageJson ==
    (handler \in Handlers /\ ~hasPackageJson) =>
        /\ pc = "done"
        /\ notices = <<ErrorMessage("No package.json found in workspace")>>
        /\ sent = <<>>
        /\ tasks = <<>>
        /\ manifest = NoManifest
        /\ NoticesOfKind("success") = {}

\* addScript ran in a folder without package.json.
C28_Witness ==
    /\ handler = "addScript"
    /\ workspaceFolder
    /\ files = {}
    /\ pc = "done"
    /\ notices = <<ErrorMessage("No package.json found in workspace")>>

\* The prompts of the five flows, each with the local variable that takes
\* its answer.
PromptAnswer ==
    [getValidatedInput |-> "userInput", showInstalledDependencies |-> "package",
     versionChoice |-> "versionChoice", versionInput |-> "targetVersion",
     showWarningMessage |-> "answer", scriptName |-> "scriptName",
     scriptCommand |-> "scriptCommand"]

PromptingHandlers ==
    {"addDependency", "addDevDependency", "removeDependency", "updateDependency", "addScript"}

\* C29: in addDependency, addDevDependency, removeDependency,
\* updateDependency and addScript, the step in which a prompt is dismissed
\* ends the handler, and the handler has sent no command, has started no
\* write of package.json, has left package.json as it was and has shown no
\* success message.
C29_DismissedPrompt ==
    [][(/\ handler \in PromptingHandlers
        /\ pc \in DOMAIN PromptAnswer
        /\ pc' # pc
        /\ local'[PromptAnswer[pc]] = Undefined)
          => /\ pc' = "done"
             /\ handler' = handler
             /\ sent' = <<>>
             /\ manifest' = manifest
             /\ tasks' = tasks
             /\ \A j \in DOMAIN notices' : notices'[j].kind # "success"]_vars

\* updateDependency: a package was picked, "Specify version" was chosen,
\* and the version input box was dismissed.
C29_Witness ==
    /\ handler = "updateDependency"
    /\ pc = "done"
    /\ IsDefined(local.package)
    /\ local.versionChoice = Some("custom")
    /\ local.targetVersion = Undefined
    /\ sent = <<>>

\* A Client operation has thrown in the handler: it has shown its message.
ClientThrew ==
    \E o \in ClientOperations, j \in DOMAIN notices :
        notices[j] = ErrorMessage(ClientFailure(o))

\* C30: when a Client operation throws inside a handler, the handler shows
\* no success message, shows its error message, logs its result as failed
\* and as nothing else, and returns.
C30_ClientThrows ==
    ClientThrew =>
        /\ pc = "done"
        /\ NoticesOfKind("success") = {}
        /\ \E j \in DOMAIN notices : notices[j] = ErrorMessage(HandlerFailure(handler))
        /\ \E j \in DOMAIN results : results[j] = [command |-> handler, success |-> FALSE]
        /\ \A j \in DOMAIN results : results[j].command = handler => ~results[j].success
        /\ sent = <<>>

\* Client.remove threw after the user confirmed the removal.
C30_Witness ==
    /\ handler = "removeDependency"
    /\ local.answer = Some("Remove")
    /\ pc = "done"
    /\ notices = <<ErrorMessage("Failed to remove package"),
                   ErrorMessage("Failed to remove dependency")>>
    /\ results = <<[command |-> "removeDependency", success |-> FALSE]>>

====
